---- MODULE Spec2Model ----
(***************************************************************************)
(* Model of the Augment extension auto-updater (index.js, the IDE manager  *)
(* and the unified updater).  Version strings are sequences of one-        *)
(* character strings so that the semver operations the code calls          *)
(* (coerce, valid, gt, rcompare) are computed on the text, as the library  *)
(* computes them.                                                          *)
(***************************************************************************)
EXTENDS Integers, Sequences, FiniteSets, TLC

VARIABLES
  \* SpecNorm: the input of normalizeVersion, its result, the result of
  \* normalizing that result, and the position.
  nIn, nOut, nOut2, nPc,
  \* SpecDetect: the environment of each target (probe outcome, known path,
  \* marker directory), whether HOME is defined, the detector's result, the
  \* version scanIDEs meets in each IDE and what findExtensionInIDEs chose.
  dEnvs, dHome, dResult, dPc, dScan, dFound,
  \* SpecDir: the listing of an extensions directory (Null: no directory),
  \* the version found by getExtensionVersionFromDir and the one found by
  \* the earlier getVSCodeExtensionVersion.
  sDir, sOut, sOutFirst, sPc,
  \* SpecResolve: the responses the latest-version resolvers meet, the
  \* result of the resolver that ran, and the position.
  qPrimary, qFallback, qRegistry, qNpm, qOut, qPc,
  \* SpecFanout: the directories under profiles/ now and before the run, the
  \* detected IDEs and the one being installed, the Cursor profiles, the
  \* folder being copied, the position in
  \* installExtensionInAllCursorProfiles, the profile being copied to, the
  \* install, copy and registry steps made so far, and what the caller
  \* reports for each target.
  fHost, fBefore, fTargets, fTi, fProfiles, fDirName, fPc, fIdx, fLog,
  fReported,
  \* the extensions directory the profiles' copies go to, now and before.
  fStore, fStoreBefore,
  \* SpecSingle: the position in the single-target run(), its flags, the
  \* verification attempt and the version it saw, the error thrown, whether
  \* success was reported, the exit code and the artifact.
  oPc, oDryRun, oCron, oAttempt, oSeen, oError, oReported, oExit, oArtifact,
  \* SpecUpdater: the position in AICodeUpdater's Augment update, its flags,
  \* the scanned statuses, the selected targets and the one being installed,
  \* the install steps made, the error thrown, whether the update was
  \* reported as done, the exit code and the artifact.
  uPc, uDryRun, uCron, uStatus, uTargets, uTi, uLog, uError, uReported, uExit,
  uArtifact,
  \* the button the notification returned and the answer typed at the prompt.
  uAnswer,
  \* SpecRetry: the position in withRetry, its options, the attempt under
  \* way, whether the last invocation succeeded, the invocation whose error
  \* is held in lastError, the invocations, onRetry calls and sleeps made,
  \* and what withRetry returned or threw.
  wPc, wMax, wDelayMs, wMult, wOnRetry, wAttempt, wLastOk, wLastError, wLog,
  wResult,
  \* SpecCli: the position, the detected CLIs, what getLatestVersion met for
  \* each, the results of checkAllForUpdates, and the last call of
  \* updateCLI or installCLI.
  cPc, cDetected, cLatest, cResults, cCall,
  \* Spec: one run of AugmentMonitor.run().
  pc,              \* position in run()
  isDryRun,        \* --dry-run
  isCronMode,      \* !process.stdout.isTTY
  force,           \* --force
  detectedIDEs,    \* ideManager.detectedIDEs, as the ide keys
  ideStatus,       \* scanIDEs(): [ide, version] per detected IDE
  latestVersion,   \* getLatestVersion()
  outdated,        \* isOutdated of each status, in order
  targets,         \* promptSelection(): the selected ide keys
  attempt,         \* downloadVsix: the attempt under way
  downloadLog,     \* downloadVsix: "accepted" or "rejected" per request made
  lastOutcome,     \* downloadVsix: what the last request met
  delayTotal,      \* downloadVsix: milliseconds waited between attempts
  installLog,      \* installExtensions: [ide, ok] per install command run
  tempDirMade,     \* the constructor created the temp directory
  lastSeen,        \* verifyInstallations: the last re-detection and its result
  verifiedTargets, \* verifyInstallations: targets logged as verified
  vsixPath,        \* the path downloadVsix returned (Null before)
  tempFiles,       \* the files of tempDir
  installResults,  \* installExtensions(): [ide, success] per target
  verifyIdx,       \* verifyInstallations: index into successfulInstalls
  verifyAttempt,   \* verifyInstallations: the attempt under way
  failed,          \* verifyInstallations: targets not verified
  summary,         \* the rows of the Update Summary
  cleanupWarning,  \* cleanupFile logged 'Cleanup failed'
  fatal,           \* message of the error that reached run()'s outer catch
  exitCode         \* -1 while running, then the process exit code

nVars == <<nIn, nOut, nOut2, nPc>>
dVars == <<dEnvs, dHome, dResult, dPc, dScan, dFound>>
sVars == <<sDir, sOut, sOutFirst, sPc>>
qVars == <<qPrimary, qFallback, qRegistry, qNpm, qOut, qPc>>
fVars == <<fHost, fBefore, fTargets, fTi, fProfiles, fDirName, fPc, fIdx, fLog,
          fReported, fStore, fStoreBefore>>
oVars == <<oPc, oDryRun, oCron, oAttempt, oSeen, oError, oReported, oExit,
          oArtifact>>
uVars == <<uPc, uDryRun, uCron, uStatus, uTargets, uTi, uLog, uError,
          uReported, uExit, uArtifact, uAnswer>>
wVars == <<wPc, wMax, wDelayMs, wMult, wOnRetry, wAttempt, wLastOk, wLastError,
          wLog, wResult>>
cVars == <<cPc, cDetected, cLatest, cResults, cCall>>
rVars == <<downloadLog, lastOutcome, delayTotal, installLog,
           tempDirMade, lastSeen, verifiedTargets,
           pc, isDryRun, isCronMode, force, detectedIDEs, ideStatus,
           latestVersion, outdated, targets, attempt, vsixPath, tempFiles,
           installResults, verifyIdx, verifyAttempt, failed, summary,
           cleanupWarning, fatal, exitCode>>
vars == <<nVars, dVars, sVars, qVars, fVars, oVars, uVars, wVars, cVars, rVars>>

\* What each specification leaves alone: the variables of the other ones.
notN == <<dVars, sVars, qVars, fVars, rVars, oVars, uVars, wVars, cVars>>
notD == <<nVars, sVars, qVars, fVars, rVars, oVars, uVars, wVars, cVars>>
notS == <<nVars, dVars, qVars, fVars, rVars, oVars, uVars, wVars, cVars>>
notQ == <<nVars, dVars, sVars, fVars, rVars, oVars, uVars, wVars, cVars>>
notF == <<nVars, dVars, sVars, qVars, rVars, oVars, uVars, wVars, cVars>>
notR == <<nVars, dVars, sVars, qVars, fVars, oVars, uVars, wVars, cVars>>
notO == <<nVars, dVars, sVars, qVars, fVars, rVars, uVars, wVars, cVars>>
notU == <<nVars, dVars, sVars, qVars, fVars, rVars, oVars, wVars, cVars>>
notW == <<nVars, dVars, sVars, qVars, fVars, rVars, oVars, uVars, cVars>>
notC == <<nVars, dVars, sVars, qVars, fVars, rVars, oVars, uVars, wVars>>

(***************************************************************************)
(* Text helpers                                                            *)
(***************************************************************************)

\* JavaScript null / undefined: a value no version text equals.
Null == <<"null">>

Digits == {"0", "1", "2", "3", "4", "5", "6", "7", "8", "9"}

Letters == {"a", "b", "c", "d", "e", "f", "g", "h", "i", "j", "k", "l", "m",
            "n", "o", "p", "q", "r", "s", "t", "u", "v", "w", "x", "y", "z",
            "I"}

\* The characters of a semver identifier: [0-9A-Za-z-].
IdChars == Digits \cup Letters \cup {"-"}

\* ASCII order of the characters the model uses (String.prototype comparison).
AsciiOrder == <<" ", "(", ")", "+", "-", ".", "0", "1", "2", "3", "4", "5", "6",
                "7", "8", "9", "I", "a", "b", "c", "d", "e", "f", "g", "h", "i",
                "j", "k", "l", "m", "n", "o", "p", "q", "r", "s", "t", "u", "v",
                "w", "x", "y", "z">>

CharCode(c) == CHOOSE i \in 1..Len(AsciiOrder) : AsciiOrder[i] = c

DigitValue(c) == CharCode(c) - CharCode("0")

AllIn(s, S) == \A i \in 1..Len(s) : s[i] \in S

\* Index of the first occurrence of character c in s, 0 when there is none.
IndexOf(s, c) ==
  IF \E i \in 1..Len(s) : s[i] = c
    THEN CHOOSE i \in 1..Len(s) : s[i] = c /\ \A j \in 1..(i - 1) : s[j] # c
    ELSE 0

RECURSIVE SplitOn(_, _)
\* String.prototype.split on a one-character separator.
SplitOn(s, c) ==
  LET i == IndexOf(s, c) IN
    IF i = 0 THEN <<s>>
    ELSE <<SubSeq(s, 1, i - 1)>> \o SplitOn(SubSeq(s, i + 1, Len(s)), c)

RECURSIVE SeqToNat(_)
SeqToNat(s) ==
  IF Len(s) = 0 THEN 0
  ELSE 10 * SeqToNat(SubSeq(s, 1, Len(s) - 1)) + DigitValue(s[Len(s)])

RECURSIVE NatToSeq(_)
NatToSeq(n) ==
  IF n < 10 THEN <<AsciiOrder[CharCode("0") + n]>>
  ELSE NatToSeq(n \div 10) \o <<AsciiOrder[CharCode("0") + (n % 10)]>>

StartsWith(s, prefix) ==
  Len(s) >= Len(prefix) /\ SubSeq(s, 1, Len(prefix)) = prefix

(***************************************************************************)
(* semver, as the code uses it                                             *)
(***************************************************************************)

\* NUMERICIDENTIFIER: 0|[1-9]\d*
IsNumericId(id) ==
  Len(id) > 0 /\ AllIn(id, Digits) /\ (Len(id) > 1 => id[1] # "0")

\* A prerelease identifier: numeric without leading zero, or alphanumeric
\* with at least one non-digit.
IsPreId(id) ==
  Len(id) > 0 /\ AllIn(id, IdChars) /\ (AllIn(id, Digits) => IsNumericId(id))

IsBuildId(id) == Len(id) > 0 /\ AllIn(id, IdChars)

Invalid == [ok |-> FALSE, major |-> 0, minor |-> 0, patch |-> 0, pre |-> <<>>]

\* new SemVer(v) in strict mode: v?MAJOR.MINOR.PATCH(-PRERELEASE)?(+BUILD)?
\* anchored at both ends; the build metadata is validated and dropped.
semverParse(v) ==
  IF v = Null \/ Len(v) = 0 THEN Invalid
  ELSE
    LET s     == IF v[1] = "v" THEN SubSeq(v, 2, Len(v)) ELSE v
        plus  == IndexOf(s, "+")
        front == IF plus = 0 THEN s ELSE SubSeq(s, 1, plus - 1)
        build == IF plus = 0 THEN <<>> ELSE SubSeq(s, plus + 1, Len(s))
        dash  == IndexOf(front, "-")
        main  == IF dash = 0 THEN front ELSE SubSeq(front, 1, dash - 1)
        pre   == IF dash = 0 THEN <<>> ELSE SubSeq(front, dash + 1, Len(front))
        nums  == SplitOn(main, ".")
        preIds   == IF dash = 0 THEN <<>> ELSE SplitOn(pre, ".")
        buildIds == IF plus = 0 THEN <<>> ELSE SplitOn(build, ".")
    IN
      IF /\ Len(nums) = 3
         /\ \A i \in 1..3 : IsNumericId(nums[i])
         /\ \A i \in 1..Len(preIds) : IsPreId(preIds[i])
         /\ \A i \in 1..Len(buildIds) : IsBuildId(buildIds[i])
      THEN [ok |-> TRUE, major |-> SeqToNat(nums[1]), minor |-> SeqToNat(nums[2]),
            patch |-> SeqToNat(nums[3]), pre |-> preIds]
      ELSE Invalid

\* semver.valid(v): truthy exactly when v parses.
semverValid(v) == semverParse(v).ok

\* SemVer.version: the canonical text major.minor.patch(-prerelease)
RECURSIVE JoinIds(_)
JoinIds(ids) ==
  IF Len(ids) = 0 THEN <<>>
  ELSE IF Len(ids) = 1 THEN ids[1]
  ELSE ids[1] \o <<".">> \o JoinIds(Tail(ids))

semverFormat(p) ==
  NatToSeq(p.major) \o <<".">> \o NatToSeq(p.minor) \o <<".">> \o NatToSeq(p.patch)
    \o (IF Len(p.pre) = 0 THEN <<>> ELSE <<"-">> \o JoinIds(p.pre))

RECURSIVE CompareText(_, _)
\* a < b, a === b, a > b on strings: -1, 0, 1.
CompareText(a, b) ==
  IF Len(a) = 0 /\ Len(b) = 0 THEN 0
  ELSE IF Len(a) = 0 THEN -1
  ELSE IF Len(b) = 0 THEN 1
  ELSE IF CharCode(a[1]) < CharCode(b[1]) THEN -1
  ELSE IF CharCode(a[1]) > CharCode(b[1]) THEN 1
  ELSE CompareText(Tail(a), Tail(b))

CompareNat(a, b) == IF a < b THEN -1 ELSE IF a > b THEN 1 ELSE 0

\* compareIdentifiers: numeric identifiers compare as numbers and sort before
\* alphanumeric ones, which compare as text.
compareIdentifiers(a, b) ==
  LET anum == AllIn(a, Digits)
      bnum == AllIn(b, Digits)
  IN IF anum /\ bnum THEN CompareNat(SeqToNat(a), SeqToNat(b))
     ELSE IF anum THEN -1
     ELSE IF bnum THEN 1
     ELSE CompareText(a, b)

RECURSIVE comparePreFrom(_, _, _)
comparePreFrom(a, b, i) ==
  IF i > Len(a) /\ i > Len(b) THEN 0
  ELSE IF i > Len(b) THEN 1
  ELSE IF i > Len(a) THEN -1
  ELSE IF compareIdentifiers(a[i], b[i]) # 0 THEN compareIdentifiers(a[i], b[i])
  ELSE comparePreFrom(a, b, i + 1)

\* SemVer.comparePre: a release sorts after any of its prereleases.
comparePre(a, b) ==
  IF Len(a.pre) > 0 /\ Len(b.pre) = 0 THEN -1
  ELSE IF Len(a.pre) = 0 /\ Len(b.pre) > 0 THEN 1
  ELSE IF Len(a.pre) = 0 /\ Len(b.pre) = 0 THEN 0
  ELSE comparePreFrom(a.pre, b.pre, 1)

\* SemVer.compare on two parsed versions (build metadata plays no part).
semverCompare(a, b) ==
  IF a.major # b.major THEN CompareNat(a.major, b.major)
  ELSE IF a.minor # b.minor THEN CompareNat(a.minor, b.minor)
  ELSE IF a.patch # b.patch THEN CompareNat(a.patch, b.patch)
  ELSE comparePre(a, b)

\* semver.gt(a, b) throws TypeError("Invalid Version") unless both parse.
semverGtThrows(a, b) == ~semverValid(a) \/ ~semverValid(b)

semverGt(a, b) == semverCompare(semverParse(a), semverParse(b)) = 1

\* semver.rcompare(a, b) = compare(b, a)
semverRcompare(a, b) == semverCompare(semverParse(b), semverParse(a))

\* MAX_SAFE_COMPONENT_LENGTH of the COERCE pattern: \d{1,16}
MaxSafeComponentLength == 16

\* Length of the run of digits that starts at position i of s.
RECURSIVE DigitRun(_, _)
DigitRun(s, i) ==
  IF i > Len(s) \/ s[i] \notin Digits THEN 0 ELSE 1 + DigitRun(s, i + 1)

\* Start of the leftmost match of (^|[^\d])(\d{1,16})...: the first run of
\* digits that is at most 16 long; 0 when there is none.
CoerceStart(s) ==
  LET starts == {i \in 1..Len(s) :
                   /\ s[i] \in Digits
                   /\ (i = 1 \/ s[i - 1] \notin Digits)
                   /\ DigitRun(s, i) <= MaxSafeComponentLength}
  IN IF starts = {} THEN 0 ELSE CHOOSE i \in starts : \A j \in starts : i <= j

\* The optional group (?:\.(\d{1,16}))? at position i: the length of the run
\* it captures, 0 when the group matches nothing.
CoerceGroup(s, i) ==
  IF i <= Len(s) /\ s[i] = "." /\ DigitRun(s, i + 1) \in 1..MaxSafeComponentLength
    THEN DigitRun(s, i + 1)
    ELSE 0

\* semver.coerce(version): the first major(.minor(.patch)) in the text, the
\* missing parts 0, re-parsed strictly: null when nothing matches or when a
\* captured number has a leading zero.
semverCoerce(version) ==
  LET i == CoerceStart(version) IN
    IF i = 0 THEN Null
    ELSE
      LET n1 == DigitRun(version, i)
          n2 == CoerceGroup(version, i + n1)
          j  == i + n1 + 1
          n3 == IF n2 = 0 THEN 0 ELSE CoerceGroup(version, j + n2)
          k  == j + n2 + 1
          major == SubSeq(version, i, i + n1 - 1)
          minor == IF n2 = 0 THEN <<"0">> ELSE SubSeq(version, j, j + n2 - 1)
          patch == IF n3 = 0 THEN <<"0">> ELSE SubSeq(version, k, k + n3 - 1)
          text  == major \o <<".">> \o minor \o <<".">> \o patch
      IN IF semverValid(text) THEN semverFormat(semverParse(text)) ELSE Null

(***************************************************************************)
(* AugmentMonitor.normalizeVersion                                         *)
(***************************************************************************)

\* A mutant of normalizeVersion: a leading character is always sliced off
\* (an unconditional strip of a "v" prefix) before coercing.
normalizeVersionSliced(version) ==
  IF version = Null \/ Len(version) = 0 THEN Null
  ELSE semverCoerce(Tail(version))

\* A mutant of normalizeVersion: the raw text is returned when it is
\* already valid semver, so that a prerelease suffix survives.
normalizeVersionKeepsValid(version) ==
  IF version = Null \/ Len(version) = 0 THEN Null
  ELSE IF semverValid(version) THEN version
  ELSE semverCoerce(version)

\* normalizeVersion(version): null for a falsy input, else semver.coerce.
normalizeVersion(version) ==
  IF version = Null \/ Len(version) = 0 THEN Null
  ELSE semverCoerce(version)

(***************************************************************************)
(* Version texts of the tests and the documentation                        *)
(***************************************************************************)

SuffixUniversal == <<"-", "u", "n", "i", "v", "e", "r", "s", "a", "l">>
V0560 == <<"0", ".", "5", "6", "0", ".", "0">>
V0576 == <<"0", ".", "5", "7", "6", ".", "0">>
V0560u == V0560 \o SuffixUniversal
V0576u == V0576 \o SuffixUniversal
V123 == <<"1", ".", "2", ".", "3">>
V123beta1 == V123 \o <<"-", "b", "e", "t", "a", ".", "1">>
V200 == <<"2", ".", "0", ".", "0">>
V200rc1 == V200 \o <<"-", "r", "c", ".", "1">>
\* The marker scanIDEs stores for a host whose list command omits versions.
UnknownVersionMarker ==
  <<"I", "n", "s", "t", "a", "l", "l", "e", "d", " ", "(", "u", "n", "k", "n",
    "o", "w", "n", " ", "v", "e", "r", "s", "i", "o", "n", ")">>

(***************************************************************************)
(* SpecNorm: normalizeVersion applied to bounded texts, and applied again  *)
(* to its own result.                                                      *)
(***************************************************************************)

\* Longest generated text.
MaxLen == 6

NormChars == {"0", "1", ".", "-", "u"}

BoundedTexts == UNION {[1..k -> NormChars] : k \in 0..MaxLen}

NormInputs ==
  BoundedTexts \cup {Null, V0560, V0576, V0560u, V0576u, V123, V123beta1,
                     V200, V200rc1, UnknownVersionMarker}

NormIdle == nIn = Null /\ nOut = Null /\ nOut2 = Null /\ nPc = "idle"

NormInit ==
  /\ nIn \in NormInputs
  /\ nOut = Null
  /\ nOut2 = Null
  /\ nPc = "input"

Normalize ==
  /\ nPc = "input"
  /\ nOut' = normalizeVersion(nIn)
  /\ nPc' = "normalized"
  /\ UNCHANGED <<nIn, nOut2, notN>>

Renormalize ==
  /\ nPc = "normalized"
  /\ nOut # Null
  /\ nOut2' = normalizeVersion(nOut)
  /\ nPc' = "renormalized"
  /\ UNCHANGED <<nIn, nOut, notN>>

NormNext == Normalize \/ Renormalize

\* A plain version text: three numeric identifiers separated by dots.
IsPlainVersion(s) ==
  /\ s # Null
  /\ LET parts == SplitOn(s, ".") IN
       Len(parts) = 3 /\ \A i \in 1..3 : IsNumericId(parts[i])

HasDigit(s) == s # Null /\ \E i \in 1..Len(s) : s[i] \in Digits

\* C6: normalize is idempotent: whenever normalize(v) is not null,
\* normalize(normalize(v)) = normalize(v).
C6_NormalizeIdempotent == nPc = "renormalized" => nOut2 = nOut

\* Witness of C6: a suffixed input was normalized twice.
C6_Witness == nPc = "renormalized" /\ nIn = V123beta1 /\ nOut = V123 /\ nOut2 = V123

\* C7: normalize maps core+suffix (suffix starting with a non-digit) to the
\* major.minor.patch core, leaves a plain major.minor.patch unchanged, and
\* is null for an empty, absent or digit-free input.
C7_NormalizeCases ==
  nPc # "input" =>
    /\ (nIn = Null \/ ~HasDigit(nIn)) => nOut = Null
    /\ IsPlainVersion(nIn) => nOut = nIn
    /\ nIn # Null =>
         \A k \in 1..(Len(nIn) - 1) :
           (IsPlainVersion(SubSeq(nIn, 1, k)) /\ nIn[k + 1] \notin Digits)
             => nOut = SubSeq(nIn, 1, k)
    /\ nIn = V0560u => nOut = V0560
    /\ nIn = V123beta1 => nOut = V123
    /\ nIn = V200rc1 => nOut = V200
    /\ nIn = V0576 => nOut = V0576

\* Witness of C7: the suffixed version of the tests was normalized to its core.
C7_Witness == nPc = "normalized" /\ nIn = V0560u /\ nOut = V0560

(***************************************************************************)
(* IDEManager.detectAvailableIDEs                                          *)
(***************************************************************************)

\* Object.entries(this.supportedIDEs): the registry in insertion order.
SupportedIDEs == <<"cursor", "vscode", "antigravity">>

IDEs == {SupportedIDEs[i] : i \in 1..Len(SupportedIDEs)}

\* config.priority (lower number = higher priority)
Priority(ide) == CHOOSE i \in 1..Len(SupportedIDEs) : SupportedIDEs[i] = ide

\* What one target's detection can meet: the outcome of `<command> --version`
\* (execSync throws on a non-zero exit and on the 10 s timeout), whether the
\* platform is darwin and the known path exists, whether the extensions
\* directory exists.
DetectEnvs ==
  [probe : {"ok", "fail", "timeout"}, knownPath : BOOLEAN, marker : BOOLEAN]

\* A mutant of detectOne: the extensions directory is consulted before the
\* known path.
detectOneMarkerFirst(ide, env, home) ==
  IF env.probe = "ok"
    THEN [detected |-> TRUE, threw |-> FALSE, command |-> "cli",
          method |-> "command-probe", tried |-> <<"command-probe">>]
  ELSE IF ~home
    THEN [detected |-> FALSE, threw |-> TRUE, command |-> "cli",
          method |-> "none",
          tried |-> <<"command-probe", "filesystem-marker">>]
  ELSE IF env.marker
    THEN [detected |-> TRUE, threw |-> FALSE, command |-> "cli",
          method |-> "filesystem-marker",
          tried |-> <<"command-probe", "filesystem-marker">>]
  ELSE IF env.knownPath
    THEN [detected |-> TRUE, threw |-> FALSE, command |-> "macPath",
          method |-> "known-path",
          tried |-> <<"command-probe", "filesystem-marker", "known-path">>]
  ELSE [detected |-> FALSE, threw |-> FALSE, command |-> "cli",
        method |-> "none",
        tried |-> <<"command-probe", "filesystem-marker", "known-path">>]

\* The body of the per-target try block.  With HOME and USERPROFILE both
\* undefined path.join throws, which the per-target catch logs.  tried
\* lists the strategies in the order the body enters them: the known-path
\* branch is the catch block of the probe, the extensions directory is
\* looked up only while detected is still false.
detectOne(ide, env, home) ==
  IF env.probe = "ok"
    THEN [detected |-> TRUE, threw |-> FALSE, command |-> "cli",
          method |-> "command-probe", tried |-> <<"command-probe">>]
  ELSE IF env.knownPath
    THEN [detected |-> TRUE, threw |-> FALSE, command |-> "macPath",
          method |-> "known-path",
          tried |-> <<"command-probe", "known-path">>]
  ELSE IF ~home
    THEN [detected |-> FALSE, threw |-> TRUE, command |-> "cli",
          method |-> "none",
          tried |-> <<"command-probe", "known-path", "filesystem-marker">>]
  ELSE IF env.marker
    THEN [detected |-> TRUE, threw |-> FALSE, command |-> "cli",
          method |-> "filesystem-marker",
          tried |-> <<"command-probe", "known-path", "filesystem-marker">>]
  ELSE [detected |-> FALSE, threw |-> FALSE, command |-> "cli",
        method |-> "none",
        tried |-> <<"command-probe", "known-path", "filesystem-marker">>]

RECURSIVE detectLoopAborting(_, _, _, _)
\* A mutant of detectLoop: the try block encloses the loop, so the first
\* target that throws ends the detection of the remaining ones.
detectLoopAborting(i, envs, home, available) ==
  IF i > Len(SupportedIDEs) THEN available
  ELSE
    LET ide == SupportedIDEs[i]
        r   == detectOne(ide, envs[ide], home)
    IN IF r.threw THEN available
       ELSE detectLoopAborting(i + 1, envs, home,
              IF r.detected
                THEN Append(available, [ide |-> ide, command |-> r.command,
                                        method |-> r.method,
                                        priority |-> Priority(ide)])
                ELSE available)

RECURSIVE detectLoop(_, _, _, _)
\* for (const [ide, config] of Object.entries(this.supportedIDEs)) { try ... }
detectLoop(i, envs, home, available) ==
  IF i > Len(SupportedIDEs) THEN available
  ELSE
    LET ide == SupportedIDEs[i]
        r   == detectOne(ide, envs[ide], home)
    IN detectLoop(i + 1, envs, home,
         IF r.detected
           THEN Append(available, [ide |-> ide, command |-> r.command,
                                   method |-> r.method,
                                   priority |-> Priority(ide)])
           ELSE available)

RECURSIVE InsertByPriority(_, _)
InsertByPriority(sorted, x) ==
  IF Len(sorted) = 0 THEN <<x>>
  ELSE IF x.priority < sorted[1].priority THEN <<x>> \o sorted
  ELSE <<sorted[1]>> \o InsertByPriority(Tail(sorted), x)

RECURSIVE SortByPriority(_)
\* available.sort((a, b) => a.priority - b.priority): a stable sort.
SortByPriority(list) ==
  IF Len(list) = 0 THEN <<>>
  ELSE InsertByPriority(SortByPriority(SubSeq(list, 1, Len(list) - 1)),
                        list[Len(list)])

\* What scanIDEs can find in one IDE.
FindVersions == {Null, <<"0", ".", "5", "6", "0", ".", "0">>,
                 <<"0", ".", "5", "7", "6", ".", "0">>}

\* scanIDEs: one result per detected IDE, in the order of detectedIDEs.
scanResults(available, versions) ==
  [i \in 1..Len(available) |->
     [ide |-> available[i].ide, command |-> available[i].command,
      version |-> versions[available[i].ide]]]

\* findExtensionInIDEs found no version.
NotFound == [ide |-> "none", command |-> "none", version |-> Null]

findExtensionInLastIDE(results) ==
  LET Has(r) == r.version # Null
      withVersion == SelectSeq(results, Has)
  IN IF Len(withVersion) > 0 THEN withVersion[Len(withVersion)] ELSE NotFound

\* const found = results.find(r => r.version): currentIDE and the returned
\* version come from the first result that carries a version.
findExtensionInIDEs(results) ==
  LET Has(r) == r.version # Null
      withVersion == SelectSeq(results, Has)
  IN IF Len(withVersion) > 0 THEN withVersion[1] ELSE NotFound

\* index.js: the sorted list, or the throw of 'No supported IDE found' when
\* the list is empty.
detectAvailableIDEs(envs, home) ==
  LET available == SortByPriority(detectLoop(1, envs, home, <<>>)) IN
    [available |-> available, threw |-> Len(available) = 0,
     tried |-> [ide \in IDEs |-> detectOne(ide, envs[ide], home).tried]]

(***************************************************************************)
(* SpecDetect: the detector applied to every environment of the registry.  *)
(***************************************************************************)

DetectIdle ==
  /\ dEnvs = <<>> /\ dHome = FALSE /\ dResult = <<>> /\ dPc = "idle"
  /\ dScan = <<>> /\ dFound = NotFound

DetectInit ==
  /\ dEnvs \in [IDEs -> DetectEnvs]
  /\ dHome \in BOOLEAN
  /\ dResult = <<>>
  /\ dPc = "start"
  /\ dScan = <<>> /\ dFound = NotFound

Detect ==
  /\ dPc = "start"
  /\ dResult' = detectAvailableIDEs(dEnvs, dHome)
  /\ dPc' = "detected"
  /\ UNCHANGED <<dEnvs, dHome, dScan, dFound, notD>>

\* findExtensionInIDEs after a detection that found an IDE.
DetectFind ==
  /\ dPc = "detected" /\ ~dResult.threw
  /\ \E versions \in [IDEs -> FindVersions] :
       /\ dScan' = versions
       /\ dFound' = findExtensionInIDEs(scanResults(dResult.available, versions))
  /\ dPc' = "found"
  /\ UNCHANGED <<dEnvs, dHome, dResult, notD>>

DetectNext ==
  \/ Detect
  \/ DetectFind

\* Whether one of the target's own strategies succeeds.
OwnStrategySucceeds(ide) ==
  \/ dEnvs[ide].probe = "ok"
  \/ dEnvs[ide].knownPath
  \/ (dHome /\ dEnvs[ide].marker)

DetectedSet(list) == {list[i].ide : i \in 1..Len(list)}

\* C10: an exception or timeout while detecting one target does not change
\* the result of any other target: each target is detected if and only if
\* one of its own strategies succeeds.
C10_DetectionIsolated ==
  dPc = "detected" =>
    \A ide \in IDEs : (ide \in DetectedSet(dResult.available)) <=> OwnStrategySucceeds(ide)

\* Witness of C10: the first target timed out and then threw (no HOME), and a
\* later target was detected by its own probe.
C10_Witness ==
  /\ dPc = "detected"
  /\ dEnvs["cursor"].probe = "timeout"
  /\ detectOne("cursor", dEnvs["cursor"], dHome).threw
  /\ dEnvs["vscode"].probe = "ok"
  /\ DetectedSet(dResult.available) = {"vscode"}

StrategyOrder == <<"command-probe", "known-path", "filesystem-marker">>

\* C11: each target's strategies are entered in the order command probe,
\* known path, extensions directory; the known path only after the probe
\* failed (also by timeout), the directory only after both failed; and the
\* target is absent exactly when all three fail.
C11_StrategiesInOrder ==
  dPc = "detected" =>
    \A ide \in IDEs :
      LET tried == dResult.tried[ide]
          Tried(m) == \E i \in 1..Len(tried) : tried[i] = m
      IN /\ Len(tried) >= 1
         /\ tried = SubSeq(StrategyOrder, 1, Len(tried))
         /\ Tried("known-path") => dEnvs[ide].probe # "ok"
         /\ Tried("filesystem-marker") =>
              (dEnvs[ide].probe # "ok" /\ ~dEnvs[ide].knownPath)
         /\ (ide \notin DetectedSet(dResult.available)) <=>
              /\ dEnvs[ide].probe # "ok"
              /\ ~dEnvs[ide].knownPath
              /\ ~(dHome /\ dEnvs[ide].marker)

\* Witness of C11: a probe timed out, no known path was there, and the
\* extensions directory detected the target, while another target failed
\* all three.
C11_Witness ==
  /\ dPc = "detected"
  /\ dEnvs["vscode"].probe = "timeout" /\ ~dEnvs["vscode"].knownPath
  /\ dEnvs["vscode"].marker /\ dHome
  /\ dResult.tried["vscode"] = StrategyOrder
  /\ dEnvs["cursor"].probe = "fail" /\ ~dEnvs["cursor"].knownPath
  /\ ~dEnvs["cursor"].marker
  /\ DetectedSet(dResult.available) = {"vscode"}

\* The detected IDEs in which scanIDEs met a version.
WithVersion ==
  {ide \in DetectedSet(dResult.available) : dScan[ide] # Null}

\* C33: the detected list is in ascending priority number, and
\* findExtensionInIDEs selects, as current IDE and as reported version, the
\* detected IDE of lowest priority number in which a version was found.
C33_LowestPriorityWithVersion ==
  /\ dPc \in {"detected", "found"} =>
       \A i \in 1..Len(dResult.available), j \in 1..Len(dResult.available) :
         i < j => dResult.available[i].priority < dResult.available[j].priority
  /\ dPc = "found" =>
       IF WithVersion = {}
         THEN dFound = NotFound
         ELSE /\ dFound.ide \in WithVersion
              /\ \A ide \in WithVersion : Priority(dFound.ide) <= Priority(ide)
              /\ dFound.version = dScan[dFound.ide]

\* Two IDEs carry a version and the preferred one carries none.
C33_Witness ==
  /\ dPc = "found"
  /\ DetectedSet(dResult.available) = IDEs
  /\ dScan["cursor"] = Null /\ dScan["vscode"] # Null
  /\ dScan["antigravity"] # Null /\ dScan["antigravity"] # dScan["vscode"]
  /\ dFound.ide = "vscode"

\* C38: the command recorded for a detected IDE was validated by the
\* detection: the CLI command passed its version probe, or the command is
\* the known installation path, which exists.
C38_RecordedCommandValidated ==
  dPc = "detected" =>
    \A i \in 1..Len(dResult.available) :
      LET entry == dResult.available[i] IN
        \/ entry.command = "cli" /\ dEnvs[entry.ide].probe = "ok"
        \/ entry.command = "macPath" /\ dEnvs[entry.ide].knownPath

(***************************************************************************)
(* Directory scan: getExtensionVersionFromDir, getVSCodeExtensionVersion   *)
(***************************************************************************)

\* this.extensionId
ExtensionId ==
  <<"a", "u", "g", "m", "e", "n", "t", ".", "v", "s", "c", "o", "d", "e", "-",
    "a", "u", "g", "m", "e", "n", "t">>

\* const prefix = `${extensionId}-`
FolderPrefix(extensionId) == extensionId \o <<"-">>

\* folder.replace(prefix, '') for a folder that starts with the prefix.
StripPrefix(folder, prefix) == SubSeq(folder, Len(prefix) + 1, Len(folder))

RECURSIVE InsertDescending(_, _)
\* Array.prototype.sort is stable: x goes after every element that does not
\* sort after it under semver.rcompare.
InsertDescending(sorted, x) ==
  IF Len(sorted) = 0 THEN <<x>>
  ELSE IF semverRcompare(sorted[1], x) <= 0
    THEN <<sorted[1]>> \o InsertDescending(Tail(sorted), x)
  ELSE <<x>> \o sorted

RECURSIVE SortDescending(_)
\* versions.sort((a, b) => semver.rcompare(a, b))
SortDescending(list) ==
  IF Len(list) = 0 THEN <<>>
  ELSE InsertDescending(SortDescending(SubSeq(list, 1, Len(list) - 1)),
                        list[Len(list)])

\* The suffixes of the folders that start with the prefix and are valid
\* semver, in directory order.
ValidSuffixes(dir, extensionId) ==
  LET prefix == FolderPrefix(extensionId)
      HasPrefix(folder) == StartsWith(folder, prefix)
      IsValid(v) == semverValid(v)
      folders == SelectSeq(dir, HasPrefix)
      suffixes == [i \in 1..Len(folders) |-> StripPrefix(folders[i], prefix)]
  IN SelectSeq(suffixes, IsValid)

\* index.js 1784 and managers IDEManager: the highest valid version among the
\* folders of the extension; null without a directory (or when reading it
\* throws) and when no folder carries a valid version.
getExtensionVersionFromDir(dir, extensionId) ==
  IF dir = Null THEN Null
  ELSE
    LET versions == SortDescending(ValidSuffixes(dir, extensionId)) IN
      IF Len(versions) > 0 THEN versions[1] ELSE Null

\* index.js 826: extensions.find(...) takes the first folder of the
\* extension only, and its version when that one is valid.
getVSCodeExtensionVersion(dir, extensionId) ==
  IF dir = Null THEN Null
  ELSE
    LET prefix == FolderPrefix(extensionId)
        HasPrefix(folder) == StartsWith(folder, prefix)
        folders == SelectSeq(dir, HasPrefix)
    IN IF Len(folders) = 0 THEN Null
       ELSE LET version == StripPrefix(folders[1], prefix) IN
              IF semverValid(version) THEN version ELSE Null

(***************************************************************************)
(* SpecDir: both directory scans applied to bounded listings.              *)
(***************************************************************************)

\* Most entries in a generated listing.
MaxDirEntries == 3

VBad == <<"b", "a", "d">>

OtherFolder == <<"o", "t", "h", "e", "r", "-">> \o V0576

FolderPool ==
  {FolderPrefix(ExtensionId) \o v : v \in {V0560, V0576, V0576u, VBad}}
    \cup {OtherFolder}

\* readdirSync results: listings without repeated names, in any order.
Listings ==
  {l \in UNION {[1..k -> FolderPool] : k \in 0..MaxDirEntries} :
     \A i, j \in 1..Len(l) : i # j => l[i] # l[j]}

DirIdle == sDir = Null /\ sOut = Null /\ sOutFirst = Null /\ sPc = "idle"

DirInit ==
  /\ sDir \in Listings \cup {Null}
  /\ sOut = Null
  /\ sOutFirst = Null
  /\ sPc = "start"

ScanDir ==
  /\ sPc = "start"
  /\ sOut' = getExtensionVersionFromDir(sDir, ExtensionId)
  /\ sOutFirst' = getVSCodeExtensionVersion(sDir, ExtensionId)
  /\ sPc' = "scanned"
  /\ UNCHANGED <<sDir, notS>>

DirNext == ScanDir

\* The parseable suffixes of the entries named <identifier>-<version>.
ParseableEntries(dir) ==
  IF dir = Null THEN {}
  ELSE LET vs == ValidSuffixes(dir, ExtensionId) IN {vs[i] : i \in 1..Len(vs)}

\* r is the maximum of S in semver order, null when S is empty.
IsMaxOf(r, S) ==
  IF S = {} THEN r = Null
  ELSE r \in S /\ \A v \in S : ~semverGt(v, r)

\* C8: the directory scan returns the maximum parseable version over all
\* entries <identifier>-<version>, ignoring unparseable ones, whatever the
\* order of the entries, and null only when no entry is parseable; stated
\* of every directory scan of the program.
C8_DirScanReturnsMax ==
  sPc = "scanned" =>
    /\ IsMaxOf(sOut, ParseableEntries(sDir))
    /\ IsMaxOf(sOutFirst, ParseableEntries(sDir))

\* The same statement of getExtensionVersionFromDir alone.
DirScanMaxLatest == sPc = "scanned" => IsMaxOf(sOut, ParseableEntries(sDir))

(***************************************************************************)
(* IDEManager.scanIDEs                                                     *)
(***************************************************************************)

V0577 == <<"0", ".", "5", "7", "7", ".", "0">>

\* Outcomes of `<command> --list-extensions [--show-versions]`: the command
\* throws (failure or timeout), or its output does or does not name the
\* extension; with --show-versions the name is followed by @version.
ListOutcomes ==
  {[kind |-> "throws", version |-> Null], [kind |-> "absent", version |-> Null],
   [kind |-> "listed", version |-> V0560], [kind |-> "listed", version |-> V0576]}

\* The body of the scanIDEs loop for one detected IDE: the folder first,
\* then the list command; a host whose list omits versions reads the folder
\* again and otherwise stores the marker.
scanIDE(ide, dir, list) ==
  LET fromDir == getExtensionVersionFromDir(dir, ExtensionId) IN
    IF fromDir # Null THEN fromDir
    ELSE IF list.kind = "throws" THEN Null
    ELSE IF ide \in {"cursor", "antigravity"}
      THEN (IF list.kind = "listed" THEN list.version ELSE Null)
    ELSE IF list.kind = "listed"
      THEN (IF getExtensionVersionFromDir(dir, ExtensionId) # Null
              THEN getExtensionVersionFromDir(dir, ExtensionId)
              ELSE UnknownVersionMarker)
    ELSE Null

\* Extension directories a scan of the run can meet.
ScanDirs ==
  {Null, <<>>,
   <<FolderPrefix(ExtensionId) \o V0560>>,
   <<FolderPrefix(ExtensionId) \o V0576>>,
   <<FolderPrefix(ExtensionId) \o V0576u>>,
   <<FolderPrefix(ExtensionId) \o V0577>>,
   <<FolderPrefix(ExtensionId) \o V0560, FolderPrefix(ExtensionId) \o V0576>>,
   <<FolderPrefix(ExtensionId) \o VBad>>}

\* The versions one turn of the scanIDEs loop can report for each IDE.
ScanVersions ==
  [ide \in {"cursor", "vscode", "antigravity"} |->
     {scanIDE(ide, dir, list) : dir \in ScanDirs, list \in ListOutcomes}]

(***************************************************************************)
(* AugmentMonitor: latest version, decision, selection                     *)
(***************************************************************************)

\* The JavaScript value undefined, where a version text was expected.
Undefined == <<"undefined">>

\* No response: the resolver that would read it is not the one under way.
NoResponse == [kind |-> "none", depth |-> 0, version |-> Null]

\* Number of links of data.results[0].extensions[0].versions[0] (results,
\* results[0], extensions, extensions[0], versions, versions[0]).
BodyLinks == 6

\* Responses to the structured query: fetch throws (network error or
\* timeout), the status is not OK, the body is not JSON, or the body is
\* JSON in which the first depth links of
\* results[0].extensions[0].versions[0] are present; with all the links
\* present, version is the value of the version field.
PrimaryResponses ==
  {[kind |-> k, depth |-> 0, version |-> Null] : k \in {"throws", "notOk", "invalidJson"}}
    \cup {[kind |-> "body", depth |-> d, version |-> Null] : d \in 0..(BodyLinks - 1)}
    \cup {[kind |-> "body", depth |-> BodyLinks, version |-> v] : v \in {Undefined, <<>>, V0576}}

\* The part of a marketplace page a pattern can match: a piece of text of
\* one of these kinds around a value.
\*   jsonLower  "version":"<value>"       jsonUpper  "Version":"<value>"
\*   text       Version <value>           textLower  version <value>
\*   data       data-version="<value>"    other      anything else
TokenKinds == {"jsonLower", "text", "textLower", "jsonUpper", "data"}

PageTokens ==
  {[kind |-> k, value |-> v] : k \in TokenKinds, v \in {V0560, V0576}}
    \cup {[kind |-> "text", value |-> V0576u], [kind |-> "other", value |-> Null]}

\* Most tokens of a generated page.
MaxPageTokens == 2

\* Responses to the request of the marketplace page.
FallbackResponses ==
  {[kind |-> k, tokens |-> <<>>] : k \in {"throws", "notOk"}}
    \cup {[kind |-> "page", tokens |-> t] :
            t \in UNION {[1..n -> PageTokens] : n \in 0..MaxPageTokens}}

\* The match of [0-9]+\.[0-9]+\.[0-9]+ at the start of a text; null when
\* the text does not start with one.
TriplePrefix(v) ==
  LET n1 == DigitRun(v, 1)
      n2 == IF n1 > 0 /\ n1 < Len(v) /\ v[n1 + 1] = "."
              THEN DigitRun(v, n1 + 2) ELSE 0
      n3 == IF n2 > 0 /\ n1 + n2 + 1 < Len(v) /\ v[n1 + n2 + 2] = "."
              THEN DigitRun(v, n1 + n2 + 3) ELSE 0
  IN IF n3 > 0 THEN SubSeq(v, 1, n1 + n2 + n3 + 2) ELSE Null

\* The patterns of getLatestVersionFallback, in the order of the array:
\*   /"version":"([^"]+)"/, /Version\s+([0-9]+\.[0-9]+\.[0-9]+)/i,
\*   /"Version":"([^"]+)"/, /data-version="([^"]+)"/
VersionPatterns == <<"jsonLower", "text", "jsonUpper", "data">>

\* The patterns of getVersionFallback (unified updater): the first two.
UpdaterPatterns == <<"jsonLower", "text">>

\* What a pattern captures from one token; null when it does not match it.
\* The second pattern ignores case and captures the leading number triple.
PatternCapture(pattern, token) ==
  IF pattern = "text"
    THEN (IF token.kind \in {"text", "textLower"} THEN TriplePrefix(token.value) ELSE Null)
  ELSE IF token.kind = pattern THEN token.value
  ELSE Null

\* html.match(pattern): the capture of the leftmost match, null without one.
PatternMatch(pattern, tokens) ==
  LET hits == {i \in 1..Len(tokens) : PatternCapture(pattern, tokens[i]) # Null} IN
    IF hits = {} THEN Null
    ELSE PatternCapture(pattern, tokens[CHOOSE i \in hits : \A j \in hits : i <= j])

\* A mutant of scrapeFrom: the match that comes first in the page wins,
\* whatever pattern it belongs to.
scrapeLeftmost(patterns, i, tokens) ==
  LET Cap(t) == LET ps == {k \in i..Len(patterns) : PatternCapture(patterns[k], t) # Null}
                IN IF ps = {} THEN Null
                   ELSE PatternCapture(patterns[CHOOSE k \in ps : \A l \in ps : k <= l], t)
      hits == {n \in 1..Len(tokens) : Cap(tokens[n]) # Null}
  IN IF hits = {} THEN Null
     ELSE Cap(tokens[CHOOSE n \in hits : \A m \in hits : n <= m])

RECURSIVE scrapeFrom(_, _, _)
\* for (const pattern of versionPatterns) { if (match && match[1]) return }
scrapeFrom(patterns, i, tokens) ==
  IF i > Len(patterns) THEN Null
  ELSE IF PatternMatch(patterns[i], tokens) # Null THEN PatternMatch(patterns[i], tokens)
  ELSE scrapeFrom(patterns, i + 1, tokens)

\* The scrape of a page: throws when the request throws, when the status
\* is not OK and when no pattern matches.
scrapePage(patterns, fallback) ==
  IF fallback.kind # "page" THEN [threw |-> TRUE, version |-> Null]
  ELSE LET version == scrapeFrom(patterns, 1, fallback.tokens) IN
         [threw |-> version = Null, version |-> version]

\* AugmentMonitor.getLatestVersionFallback
getLatestVersionFallback(fallback) == scrapePage(VersionPatterns, fallback)

\* AICodeUpdater.getVersionFallback
getVersionFallback(fallback) == scrapePage(UpdaterPatterns, fallback)

ViaFallback(f) == [threw |-> f.threw, version |-> f.version, fallbackTried |-> TRUE]

\* AugmentMonitor.getLatestVersion: the scrape is called when the status is
\* not OK, when results[0].extensions[0] is missing, and from the catch
\* block (fetch or json() threw, or reading versions[0].version threw
\* because versions or versions[0] is missing).  Otherwise the version
\* field is returned as it is.
getLatestVersion(primary, fallback) ==
  IF primary.kind = "notOk" THEN ViaFallback(getLatestVersionFallback(fallback))
  ELSE IF primary.kind \in {"throws", "invalidJson"}
    THEN ViaFallback(getLatestVersionFallback(fallback))
  ELSE IF primary.depth < 4 THEN ViaFallback(getLatestVersionFallback(fallback))
  ELSE IF primary.depth < BodyLinks THEN ViaFallback(getLatestVersionFallback(fallback))
  ELSE [threw |-> FALSE, version |-> primary.version, fallbackTried |-> FALSE]

\* AICodeUpdater.getLatestMarketplaceVersion: every failure is a throw
\* inside the try block, whose catch calls the scrape; the body is
\* accepted when data.results?.[0]?.extensions?.[0]?.versions?.[0] is there.
getLatestMarketplaceVersion(primary, fallback) ==
  IF primary.kind # "body" \/ primary.depth < BodyLinks
    THEN ViaFallback(getVersionFallback(fallback))
  ELSE [threw |-> FALSE, version |-> primary.version, fallbackTried |-> FALSE]

\* Responses of the npm registry: as above, with data.version as version.
RegistryResponses ==
  {[kind |-> k, depth |-> 0, version |-> Null] : k \in {"throws", "notOk", "invalidJson"}}
    \cup {[kind |-> "body", depth |-> 0, version |-> v] : v \in {Undefined, V0576}}

LineFeed == "\n"

\* Outcomes of `npm show <package> version`: a throw, or the output.
NpmOutcomes ==
  {[threw |-> TRUE, output |-> <<>>],
   [threw |-> FALSE, output |-> V0576 \o <<LineFeed>>],
   [threw |-> FALSE, output |-> <<LineFeed>>]}

RECURSIVE TrimEnd(_)
TrimEnd(text) ==
  IF Len(text) > 0 /\ text[Len(text)] \in {LineFeed, " "}
    THEN TrimEnd(SubSeq(text, 1, Len(text) - 1)) ELSE text

RECURSIVE Trim(_)
\* output.trim()
Trim(text) ==
  IF Len(text) > 0 /\ text[1] \in {LineFeed, " "} THEN Trim(Tail(text))
  ELSE TrimEnd(text)

\* CLIManager.getLatestVersion: data.version of an OK response; npm show
\* when the status is not OK; a throw of fetch or of json() is logged and
\* rethrown by the catch block that encloses both.
cliGetLatestVersion(registry, npm) ==
  IF registry.kind \in {"throws", "invalidJson"}
    THEN [threw |-> TRUE, version |-> Null, fallbackTried |-> FALSE]
  ELSE IF registry.kind = "body"
    THEN [threw |-> FALSE, version |-> registry.version, fallbackTried |-> FALSE]
  ELSE IF npm.threw THEN [threw |-> TRUE, version |-> Null, fallbackTried |-> TRUE]
  ELSE [threw |-> FALSE, version |-> Trim(npm.output), fallbackTried |-> TRUE]

(***************************************************************************)
(* SpecResolve: each latest-version resolver applied to bounded responses  *)
(***************************************************************************)

NotResolved == [threw |-> FALSE, version |-> Null, fallbackTried |-> FALSE]

NoPage == [kind |-> "none", tokens |-> <<>>]

NoNpm == [threw |-> TRUE, output |-> <<>>]

ResolveIdle ==
  /\ qPrimary = NoResponse /\ qFallback = NoPage /\ qRegistry = NoResponse
  /\ qNpm = NoNpm /\ qOut = NotResolved /\ qPc = "idle"

\* Either the marketplace is asked (structured query, page) or the npm
\* registry (registry, npm show).
ResolveInit ==
  /\ \/ /\ qPrimary \in PrimaryResponses /\ qFallback \in FallbackResponses
        /\ qRegistry = NoResponse /\ qNpm = NoNpm
     \/ /\ qRegistry \in RegistryResponses /\ qNpm \in NpmOutcomes
        /\ qPrimary = NoResponse /\ qFallback = NoPage
  /\ qOut = NotResolved
  /\ qPc = "start"

ResolveMonitor ==
  /\ qPc = "start" /\ qPrimary # NoResponse
  /\ qOut' = getLatestVersion(qPrimary, qFallback)
  /\ qPc' = "monitor"
  /\ UNCHANGED <<qPrimary, qFallback, qRegistry, qNpm, notQ>>

ResolveUpdater ==
  /\ qPc = "start" /\ qPrimary # NoResponse
  /\ qOut' = getLatestMarketplaceVersion(qPrimary, qFallback)
  /\ qPc' = "updater"
  /\ UNCHANGED <<qPrimary, qFallback, qRegistry, qNpm, notQ>>

ResolveCli ==
  /\ qPc = "start" /\ qRegistry # NoResponse
  /\ qOut' = cliGetLatestVersion(qRegistry, qNpm)
  /\ qPc' = "cli"
  /\ UNCHANGED <<qPrimary, qFallback, qRegistry, qNpm, notQ>>

ResolveNext == ResolveMonitor \/ ResolveUpdater \/ ResolveCli

\* C12: resolution fails only if the primary and the fallback both fail:
\* when the primary fails (fetch throws, status not OK, body not JSON or a
\* link of the result path missing) the fallback is attempted and its
\* result returned when it succeeds; for the marketplace resolvers and for
\* the CLI-package resolver.
C12_FailsOnlyIfBothFail ==
  /\ qPc \in {"monitor", "updater"} =>
       LET primaryFailed == qPrimary.kind # "body" \/ qPrimary.depth < BodyLinks
           f == IF qPc = "monitor" THEN getLatestVersionFallback(qFallback)
                ELSE getVersionFallback(qFallback)
       IN /\ primaryFailed =>
               /\ qOut.fallbackTried
               /\ ~f.threw => (~qOut.threw /\ qOut.version = f.version)
          /\ qOut.threw => (primaryFailed /\ f.threw)
  /\ qPc = "cli" =>
       LET primaryFailed == qRegistry.kind # "body" IN
         /\ primaryFailed =>
              /\ qOut.fallbackTried
              /\ ~qNpm.threw => (~qOut.threw /\ qOut.version = Trim(qNpm.output))
         /\ qOut.threw => (primaryFailed /\ qNpm.threw)

\* C13: a structured-query body in which a link of
\* results[0].extensions[0].versions[0].version is missing or empty is not
\* accepted: the fallback is attempted and the version returned, if any, is
\* the one the scrape extracted.
C13_MalformedBodyNotAccepted ==
  (/\ qPc \in {"monitor", "updater"}
   /\ qPrimary.kind = "body"
   /\ (qPrimary.depth < BodyLinks \/ qPrimary.version \in {Undefined, <<>>}))
  => LET f == IF qPc = "monitor" THEN getLatestVersionFallback(qFallback)
              ELSE getVersionFallback(qFallback)
     IN /\ qOut.fallbackTried
        /\ qOut.threw = f.threw
        /\ ~qOut.threw => (qOut.version = f.version /\ qOut.version \notin {Undefined, <<>>})

\* C14: the scrape returns the capture of the first pattern, in the order
\* of the pattern list, that matches the page, also when a later pattern
\* matches with another value; it throws only when no pattern matches.
C14_FirstPatternWins ==
  (qPc \in {"monitor", "updater"} /\ qOut.fallbackTried /\ qFallback.kind = "page")
  => LET patterns == IF qPc = "monitor" THEN VersionPatterns ELSE UpdaterPatterns
         matching == {i \in 1..Len(patterns) :
                        PatternMatch(patterns[i], qFallback.tokens) # Null}
     IN IF matching = {} THEN qOut.threw
        ELSE /\ ~qOut.threw
             /\ \E i \in matching :
                  /\ \A j \in matching : i <= j
                  /\ qOut.version = PatternMatch(patterns[i], qFallback.tokens)

\* Witness of C14: the page shows a match of the third pattern before a
\* match of the first one, with different values, and the first pattern's
\* capture was returned.
C14_Witness ==
  /\ qPc = "monitor" /\ qOut.fallbackTried /\ qFallback.kind = "page"
  /\ qFallback.tokens = <<[kind |-> "jsonUpper", value |-> V0560],
                          [kind |-> "jsonLower", value |-> V0576]>>
  /\ ~qOut.threw /\ qOut.version = V0576

\* Responses the resolver of a run meets.
RunPrimaryResponses ==
  {[kind |-> "notOk", depth |-> 0, version |-> Null],
   [kind |-> "body", depth |-> BodyLinks, version |-> V0576]}

RunFallbackResponses ==
  {[kind |-> "notOk", tokens |-> <<>>],
   [kind |-> "page", tokens |-> <<[kind |-> "jsonLower", value |-> V0576]>>]}

\* const isOutdated = !status.version || semver.gt(latestVersion, status.version)
isOutdated(version, latest) ==
  version = Null \/ Len(version) = 0 \/ semverGt(latest, version)

\* Whether evaluating isOutdated throws (semver.gt on an invalid version).
isOutdatedThrows(version, latest) ==
  version # Null /\ Len(version) > 0 /\ semverGtThrows(latest, version)

IdeOf(list) == [i \in 1..Len(list) |-> list[i].ide]

\* promptSelection in cron mode: the statuses needing an update, when the
\* notification returns 'Update All'.  A dry run's notification returns 'OK'.
promptSelectionCron(status, latest, dryRun, button) ==
  LET Needs(st) == isOutdated(st.version, latest)
      updatesNeeded == SelectSeq(status, Needs)
  IN IF Len(updatesNeeded) = 0 THEN <<>>
     ELSE IF (IF dryRun THEN "OK" ELSE button) = "Update All" THEN IdeOf(updatesNeeded)
     ELSE <<>>

\* promptSelection at the terminal: 'a', an index of the menu, 'q', or
\* anything else (choice 0 stands for 'a', -1 for 'q' and other input).
promptSelectionInteractive(status, choice) ==
  IF choice = 0 THEN IdeOf(status)
  ELSE IF choice \in 1..Len(status) THEN <<status[choice].ide>>
  ELSE <<>>

(***************************************************************************)
(* AugmentMonitor: download, install, verify, cleanup                      *)
(***************************************************************************)

\* const maxRetries = 3 (downloadVsix)
DownloadMaxRetries == 3

\* const maxRetries = 5 (verifyInstallations)
VerifyMaxRetries == 5

\* path.join(this.tempDir, `${this.extensionId}-${version}.vsix`)
ArtifactPath(version) ==
  <<"t", "e", "m", "p", "/">> \o ExtensionId \o <<"-">> \o version
    \o <<".", "v", "s", "i", "x">>

\* One download attempt: accepted when the status is OK, the body is not
\* empty and the written file is there; anything else throws inside the
\* attempt ("network" is a throw of fetch or of the write).
DownloadOutcomes == {"ok", "status", "empty", "network", "unwritten"}

\* const delayMs = 2000 * attempt
RetryDelayMs == 2000

\* throw new Error(`Download failed after ${maxRetries} attempts. ...`)
DownloadFailed == "Download failed after 3 attempts"

\* A mutant of downloadStep: the same delay before every retry.
downloadStepFlatDelay(n, outcome, dryRun) ==
  IF dryRun
    THEN [next |-> "return", accepted |-> TRUE, wrote |-> FALSE, delay |-> 0]
  ELSE IF outcome = "ok"
    THEN [next |-> "return", accepted |-> TRUE, wrote |-> TRUE, delay |-> 0]
  ELSE IF n < DownloadMaxRetries
    THEN [next |-> "retry", accepted |-> FALSE, wrote |-> FALSE,
          delay |-> RetryDelayMs]
  ELSE [next |-> "throw", accepted |-> FALSE, wrote |-> FALSE, delay |-> 0]

\* A mutant of downloadStep: the body is written before its length is
\* checked.
downloadStepWritesFirst(n, outcome, dryRun) ==
  IF dryRun
    THEN [next |-> "return", accepted |-> TRUE, wrote |-> FALSE, delay |-> 0]
  ELSE IF outcome = "ok"
    THEN [next |-> "return", accepted |-> TRUE, wrote |-> TRUE, delay |-> 0]
  ELSE IF n < DownloadMaxRetries
    THEN [next |-> "retry", accepted |-> FALSE, wrote |-> outcome = "empty",
          delay |-> RetryDelayMs * n]
  ELSE [next |-> "throw", accepted |-> FALSE, wrote |-> outcome = "empty",
        delay |-> 0]

\* A mutant of downloadStep: after the last failed attempt the path is
\* returned instead of the throw.
downloadStepReturnsAfterLast(n, outcome, dryRun) ==
  IF dryRun
    THEN [next |-> "return", accepted |-> TRUE, wrote |-> FALSE, delay |-> 0]
  ELSE IF outcome = "ok"
    THEN [next |-> "return", accepted |-> TRUE, wrote |-> TRUE, delay |-> 0]
  ELSE IF n < DownloadMaxRetries
    THEN [next |-> "retry", accepted |-> FALSE, wrote |-> FALSE,
          delay |-> RetryDelayMs * n]
  ELSE [next |-> "return", accepted |-> FALSE, wrote |-> FALSE, delay |-> 0]

\* One turn of the loop of downloadVsix, attempt n.  A dry run returns the
\* path at once.  The response is accepted when its status is OK, its body
\* is not empty and the file is there after the write; only then is a file
\* left in tempDir.  Any other outcome throws inside the try block: before
\* the last attempt the catch waits 2000 * n ms and the loop goes on, after
\* the last one the method throws.
downloadStep(n, outcome, dryRun) ==
  IF dryRun
    THEN [next |-> "return", accepted |-> TRUE, wrote |-> FALSE, delay |-> 0]
  ELSE IF outcome = "ok"
    THEN [next |-> "return", accepted |-> TRUE, wrote |-> TRUE, delay |-> 0]
  ELSE IF n < DownloadMaxRetries
    THEN [next |-> "retry", accepted |-> FALSE, wrote |-> FALSE,
          delay |-> RetryDelayMs * n]
  ELSE [next |-> "throw", accepted |-> FALSE, wrote |-> FALSE, delay |-> 0]

\* A mutant of installOne: the catch block records success as well.
installOneAlwaysSuccess(target, dryRun, ok) ==
  [success |-> TRUE, invoked |-> ~dryRun]

\* One turn of the loop of installExtensions: a dry run records success
\* without running the command; a throw of the command is caught and
\* recorded as success: false.
installOne(target, dryRun, ok) ==
  [success |-> dryRun \/ ok, invoked |-> ~dryRun]

\* const delayMs = 3000 (verifyInstallations)
VerifyDelayMs == 3000

\* No re-detection made yet.
NotSeen ==
  [ide |-> "none", version |-> Null, own |-> Null, verified |-> FALSE,
   scans |-> 0, waited |-> 0]

\* The versions a scan after the install is drawn from: none, the earlier
\* one, the new one, and the new one under its platform suffix.
RescanVersions == {Null, V0560, V0576, V0576u}

\* What scanIDEs can return then: a version (or null) for every detected
\* IDE.
ScanResults(ides) ==
  LET S == {ides[i] : i \in 1..Len(ides)} IN
    {f \in [S -> RescanVersions] : \A ide \in S : f[ide] \in ScanVersions[ide]}

\* A mutant of verifyStep: the loop goes on after a match.
verifyStepNoBreak(target, allStatus, expected, n) ==
  LET targetStatus == allStatus[target]
      verified == targetStatus = expected
  IN [observed |-> targetStatus, verified |-> verified, delay |-> VerifyDelayMs,
      next |-> IF n < VerifyMaxRetries THEN "retry"
               ELSE IF verified THEN "verified" ELSE "failed"]

\* One turn of the attempt loop of verifyInstallations for a target: the
\* wait, then allStatus.find(s => s.ide === target.ide) and the comparison
\* targetStatus.version === expectedVersion; a match breaks the loop, the
\* last attempt without one leaves the target unverified.
verifyStep(target, allStatus, expected, n) ==
  LET targetStatus == allStatus[target]
      verified == targetStatus = expected
  IN [observed |-> targetStatus, verified |-> verified, delay |-> VerifyDelayMs,
      next |-> IF verified THEN "verified"
               ELSE IF n < VerifyMaxRetries THEN "retry" ELSE "failed"]

\* A mutant of cleanupFile: the unlink is missing.
cleanupFileKeeps(filePath, files, dryRun, unlinkOk) == files

\* cleanupFile(filePath): the files of tempDir afterwards.  A dry run
\* deletes nothing; an unlink that throws is caught and leaves the file.
cleanupFile(filePath, files, dryRun, unlinkOk) ==
  IF dryRun THEN files
  ELSE IF filePath \in files /\ unlinkOk THEN files \ {filePath}
  ELSE files

\* Whether cleanupFile logs 'Cleanup failed' (the unlink threw).
cleanupFileWarns(filePath, files, dryRun, unlinkOk) ==
  ~dryRun /\ filePath \in files /\ ~unlinkOk

\* finally { if (vsixPath) this.cleanupFile(vsixPath) }
cleanupAfterRun(filePath, files, dryRun, unlinkOk) ==
  IF filePath = Null THEN files ELSE cleanupFile(filePath, files, dryRun, unlinkOk)

cleanupAfterRunWarns(filePath, files, dryRun, unlinkOk) ==
  filePath # Null /\ cleanupFileWarns(filePath, files, dryRun, unlinkOk)

SuccessfulInstalls(results) ==
  LET Ok(r) == r.success IN IdeOf(SelectSeq(results, Ok))

InSeq(x, list) == \E i \in 1..Len(list) : list[i] = x

\* The row of the Update Summary for target t.
SummaryRow(t, results, verifySuccess, failedTargets) ==
  LET installResult == CHOOSE r \in {results[i] : i \in 1..Len(results)} : r.ide = t
      isVerified == verifySuccess /\ ~InSeq(t, failedTargets)
  IN [ide |-> t,
      status |-> IF ~installResult.success THEN "Install Failed"
                 ELSE IF isVerified THEN "Success"
                 ELSE "Verify Failed"]

(***************************************************************************)
(* SpecFanout: IDEManager.installExtensionInAllIDEs, with                  *)
(* installExtensionInAllCursorProfiles, copyExtensionToAllProfiles and     *)
(* updateProfileExtensionsJson                                             *)
(***************************************************************************)

\* Most Cursor profiles of a generated host.
MaxProfiles == 3

ProfileNames == <<"p1", "p2", "p3", "p4">>

\* A directory under profiles/ that holds no extensions.json.
BareProfile == "bare"

\* The version of the artifact being installed, and an earlier one whose
\* folder name sorts after it as text.
NewVersion == V0576

V0990 == <<"0", ".", "9", "9", ".", "0">>

\* The version updateProfileExtensionsJson falls back to.
V0551 == <<"0", ".", "5", "5", "1", ".", "0">>

NightlyId == ExtensionId \o <<"-", "n", "i", "g", "h", "t", "l", "y">>

OtherId == <<"o", "t", "h", "e", "r", ".", "e", "x", "t">>

\* A record of extensions.json: identifier.id (Undefined for a record
\* without identifier) and version.
Entry(id, version) == [id |-> id, version |-> version]

\* extensions.json of a profile directory: absent, not parseable, or a list.
NoFile == [state |-> "missing", list |-> <<>>]

BadJson == [state |-> "invalid", list |-> <<>>]

Listed(list) == [state |-> "list", list |-> list]

RegistryPool ==
  { Listed(<<Entry(OtherId, V123)>>),
    Listed(<<Entry(OtherId, V123), Entry(NightlyId, V0560),
             Entry(ExtensionId, V0560), Entry(Undefined, V123)>>),
    BadJson }

\* The directories under profiles/, in readdir order: the profiles and a
\* directory without extensions.json.
Hosts ==
  UNION {
    { [i \in 1..(n + 1) |->
         IF i <= n THEN [name |-> ProfileNames[i], file |-> files[i]]
         ELSE [name |-> BareProfile, file |-> NoFile]] :
      files \in [1..n -> RegistryPool] } : n \in 0..MaxProfiles }

FileOf(host, name) ==
  host[CHOOSE i \in 1..Len(host) : host[i].name = name].file

SetFile(host, name, file) ==
  [i \in 1..Len(host) |->
     IF host[i].name = name THEN [host[i] EXCEPT !.file = file] ELSE host[i]]

\* String.prototype.includes
Includes(s, sub) ==
  \E i \in 1..(Len(s) - Len(sub) + 1) : SubSeq(s, i, i + Len(sub) - 1) = sub

getCursorProfilesAllDirs(host, readable) ==
  IF ~readable THEN <<>>
  ELSE [i \in 1..Len(host) |-> host[i].name]

\* The directories that hold an extensions.json; [] when the profiles
\* directory is missing or reading it throws.
getCursorProfiles(host, readable) ==
  IF ~readable THEN <<>>
  ELSE LET HasRegistry(d) == d.file.state # "missing"
           dirs == SelectSeq(host, HasRegistry)
       IN [i \in 1..Len(dirs) |-> dirs[i].name]

\* extensionDirs.sort().pop(): the folder of the extension that sorts last
\* as text; Null when the directory is missing or holds no such folder.
latestExtensionDir(dir) ==
  IF dir = Null THEN Null
  ELSE LET HasPrefix(folder) == StartsWith(folder, FolderPrefix(ExtensionId))
           extensionDirs == SelectSeq(dir, HasPrefix)
       IN IF Len(extensionDirs) = 0 THEN Null
          ELSE extensionDirs[CHOOSE i \in 1..Len(extensionDirs) :
                 \A j \in 1..Len(extensionDirs) :
                   CompareText(extensionDirs[j], extensionDirs[i]) <= 0]

\* ~/.cursor/extensions after the install command, as readdirSync lists it.
DefaultDirs ==
  { Null,
    <<OtherFolder>>,
    <<FolderPrefix(ExtensionId) \o NewVersion>>,
    <<FolderPrefix(ExtensionId) \o V0560, FolderPrefix(ExtensionId) \o NewVersion>>,
    <<FolderPrefix(ExtensionId) \o V0990, FolderPrefix(ExtensionId) \o NewVersion>> }

\* updateProfileExtensionsJson: the file after the call and what happened.
\* A missing file becomes an empty list; a throw of the read, the parse or
\* the write is caught and logged there.
updateProfileExtensionsJson(file, extensionDirName, writeThrows) ==
  IF file.state = "missing"
    THEN IF writeThrows THEN [file |-> file, result |-> "failed"]
         ELSE [file |-> Listed(<<>>), result |-> "created"]
  ELSE IF file.state = "invalid" THEN [file |-> file, result |-> "failed"]
  ELSE
    LET Kept(ext) == ext.id = Undefined \/ ~Includes(ext.id, ExtensionId)
        filteredExtensions == SelectSeq(file.list, Kept)
        prefix == FolderPrefix(ExtensionId)
        version == IF Len(extensionDirName) > Len(prefix)
                     THEN StripPrefix(extensionDirName, prefix)
                     ELSE V0551
        newExtensionEntry == Entry(ExtensionId, version)
    IN IF writeThrows THEN [file |-> file, result |-> "failed"]
       ELSE [file |-> Listed(Append(filteredExtensions, newExtensionEntry)),
             result |-> "updated"]

\* The directory path.join(profile.path, '..', '..', '..', '.cursor',
\* 'extensions'), the same one for every profile: missing, or holding the
\* listed folders.
NoStore == [exists |-> FALSE, dirs |-> {}]

StorePool ==
  { NoStore,
    [exists |-> TRUE,
     dirs |-> {OtherFolder, FolderPrefix(ExtensionId) \o V0560}],
    [exists |-> TRUE, dirs |-> {FolderPrefix(ExtensionId) \o NewVersion}] }

\* The directory after one turn of the copy loop: mkdirSync when it is
\* missing, rmSync of the folder of the same name, copyDirectory, which
\* may throw before or after it created the target folder.
copyToProfileStore(store, dirName, thrown, partial) ==
  IF thrown = "mkdir" THEN store
  ELSE IF thrown = "rm" THEN [exists |-> TRUE, dirs |-> store.dirs]
  ELSE IF thrown = "copy"
    THEN [exists |-> TRUE,
          dirs |-> IF partial THEN store.dirs \cup {dirName}
                   ELSE store.dirs \ {dirName}]
  ELSE [exists |-> TRUE, dirs |-> store.dirs \cup {dirName}]

\* Which step of a turn can throw: mkdirSync runs only for a missing
\* directory, rmSync only for an existing target folder.
CanThrow(store, dirName, thrown) ==
  /\ thrown = "mkdir" => ~store.exists
  /\ thrown = "rm" => dirName \in store.dirs

FanoutIdle ==
  /\ fHost = <<>> /\ fBefore = <<>> /\ fTargets = <<>> /\ fTi = 0
  /\ fProfiles = <<>> /\ fDirName = Null
  /\ fPc = "idle" /\ fIdx = 0 /\ fLog = <<>>
  /\ fReported = <<>>
  /\ fStore = NoStore /\ fStoreBefore = NoStore

\* detectedIDEs is sorted by priority: cursor before vscode.
FanoutInit ==
  /\ fHost \in Hosts
  /\ fBefore = fHost
  /\ fTargets \in {<<"cursor">>, <<"cursor", "vscode">>, <<"vscode">>}
  /\ fTi = 1
  /\ fProfiles = <<>> /\ fDirName = Null
  /\ fPc = "start" /\ fIdx = 0 /\ fLog = <<>>
  /\ fReported = [i \in 1..Len(fTargets) |-> "none"]
  /\ fStore \in StorePool /\ fStoreBefore = fStore

InstallEvent(target, ok) ==
  [op |-> "install", target |-> target, profile |-> "default", ok |-> ok,
   result |-> "none"]

\* The loop of installExtensionInAllIDEs moves to the next detected IDE; a
\* throw that reached its catch block is logged as a failure.
AfterTarget(status) ==
  /\ fReported' = [fReported EXCEPT ![fTi] = status]
  /\ IF fTi < Len(fTargets)
       THEN fTi' = fTi + 1 /\ fPc' = "start"
       ELSE fTi' = fTi /\ fPc' = "done"

\* An IDE other than Cursor: the install command, once.
FanoutInstallOther ==
  /\ fPc = "start"
  /\ fTargets[fTi] # "cursor"
  /\ \E ok \in BOOLEAN :
       /\ fLog' = Append(fLog, InstallEvent(fTargets[fTi], ok))
       /\ AfterTarget(IF ok THEN "installed" ELSE "failed")
  /\ UNCHANGED <<fHost, fBefore, fTargets, fProfiles, fDirName, fIdx,
                 fStore, fStoreBefore, notF>>

\* Cursor: getCursorProfiles(), then the first install command: the only
\* one without profiles, the default-profile install with profiles.  Its
\* throw reaches the catch block of installExtensionInAllCursorProfiles
\* (through the rethrow of the inner catch when there are profiles).
FanoutInstallDefault ==
  /\ fPc = "start"
  /\ fTargets[fTi] = "cursor"
  /\ \E ok \in BOOLEAN, readable \in BOOLEAN :
       LET profiles == getCursorProfiles(fHost, readable) IN
         /\ fProfiles' = profiles
         /\ fLog' = Append(fLog, InstallEvent("cursor", ok))
         /\ IF ~ok THEN fPc' = "fallback" /\ UNCHANGED <<fReported, fTi>>
            ELSE IF Len(profiles) = 0 THEN AfterTarget("installed")
            ELSE fPc' = "copy" /\ UNCHANGED <<fReported, fTi>>
  /\ UNCHANGED <<fHost, fBefore, fTargets, fDirName, fIdx,
                 fStore, fStoreBefore, notF>>

\* The catch block: 'Fallback to default installation' runs the install
\* command again; its throw leaves the method and is caught and logged by
\* installExtensionInAllIDEs.
FanoutFallbackInstall ==
  /\ fPc = "fallback"
  /\ \E ok \in BOOLEAN :
       /\ fLog' = Append(fLog, InstallEvent("cursor", ok))
       /\ AfterTarget(IF ok THEN "installed" ELSE "failed")
  /\ UNCHANGED <<fHost, fBefore, fTargets, fProfiles, fDirName, fIdx,
                 fStore, fStoreBefore, notF>>

\* copyExtensionToAllProfiles up to its loop: it returns when the default
\* extensions directory or the extension folder is missing, and its catch
\* swallows a throw of readdirSync.
FanoutLocate ==
  /\ fPc = "copy"
  /\ \E dir \in DefaultDirs, readable \in BOOLEAN :
       LET latest == IF readable THEN latestExtensionDir(dir) ELSE Null IN
         IF latest # Null
           THEN /\ fPc' = "profile" /\ fIdx' = 1 /\ fDirName' = latest
                /\ UNCHANGED <<fReported, fTi>>
           ELSE AfterTarget("installed") /\ UNCHANGED <<fIdx, fDirName>>
  /\ UNCHANGED <<fHost, fBefore, fTargets, fProfiles, fLog, fStore,
                 fStoreBefore, notF>>

\* The steps of one turn of the loop that can throw into its catch block.
CopySteps == {"mkdir", "rm", "copy"}

\* One turn of the loop over the profiles: the storage directory, the stale
\* folder, the copy, then the registry update and the success line; a throw
\* of the first three is caught and logged and the loop goes on.  The
\* registry file is the one discovery found.
FanoutCopy ==
  /\ fPc = "profile"
  /\ \E thrown \in CopySteps \cup {"none"}, writeThrows \in BOOLEAN,
        partial \in BOOLEAN :
       /\ CanThrow(fStore, fDirName, thrown)
       /\ (partial => thrown = "copy")
       /\ fStore' = copyToProfileStore(fStore, fDirName, thrown, partial)
       /\ LET profile == fProfiles[fIdx]
              done == thrown = "none"
              upd == updateProfileExtensionsJson(FileOf(fHost, profile),
                                                 fDirName, writeThrows)
              Event(op, ok, result) ==
                [op |-> op, target |-> "cursor", profile |-> profile,
                 ok |-> ok, result |-> result]
              copy == Event("copy", done, thrown)
              write == Event("registry", upd.result # "failed", upd.result)
              report == Event("report", done,
                              IF done THEN "succeeded" ELSE "failed")
          IN /\ fLog' = IF done THEN fLog \o <<copy, write, report>>
                        ELSE fLog \o <<copy, report>>
             /\ fHost' = IF done THEN SetFile(fHost, profile, upd.file)
                         ELSE fHost
  /\ IF fIdx < Len(fProfiles)
       THEN fIdx' = fIdx + 1 /\ UNCHANGED <<fPc, fReported, fTi>>
       ELSE AfterTarget("installed") /\ UNCHANGED fIdx
  /\ UNCHANGED <<fBefore, fTargets, fProfiles, fDirName, fStoreBefore,
                 notF>>

FanoutNext ==
  \/ FanoutInstallOther
  \/ FanoutInstallDefault
  \/ FanoutFallbackInstall
  \/ FanoutLocate
  \/ FanoutCopy

\* C19: the install command is run at most once for a target in a run: a
\* failed install is never run again automatically.
C19_InstallNotRetried ==
  \A i, j \in 1..Len(fLog) :
    (i < j /\ fLog[i].op = "install" /\ ~fLog[i].ok
       /\ fLog[j].target = fLog[i].target)
      => fLog[j].op # "install"

\* C20: no copy or registry write starts before the default-profile install
\* has succeeded; when that install fails, nothing is fanned out and the
\* target is reported as failed.
C20_FanoutAfterDefaultInstall ==
  /\ \A j \in 1..Len(fLog) :
       fLog[j].op \in {"copy", "registry"} =>
         \E i \in 1..(j - 1) : fLog[i].op = "install" /\ fLog[i].ok
  /\ (fPc = "done" /\ fTargets[1] = "cursor" /\ Len(fProfiles) > 0
        /\ ~fLog[1].ok) =>
       /\ fReported[1] = "failed"
       /\ \A j \in 1..Len(fLog) : fLog[j].op = "install"

\* The events of the log that concern profile p, in order.
EventsOf(p) ==
  LET About(ev) == ev.profile = p IN SelectSeq(fLog, About)

\* C21: a failure in any step of one profile's fanout (storage creation,
\* stale removal, copy, registry read, parse or write) is reported as a
\* failed outcome for that profile and fanout still goes on to every
\* remaining profile; a profile is reported as succeeded only when all its
\* steps, the registry write included, succeeded.
C21_ProfileFailureReported ==
  /\ \A j \in 1..Len(fLog) :
       (fLog[j].op = "report" /\ fLog[j].ok) =>
         LET steps == EventsOf(fLog[j].profile) IN
           /\ \E i \in 1..Len(steps) : steps[i].op = "registry"
           /\ \A i \in 1..Len(steps) : steps[i].ok
  /\ (fPc = "done" /\ \E j \in 1..Len(fLog) : fLog[j].op = "report") =>
       \A k \in 1..Len(fProfiles) :
         \E j \in 1..Len(fLog) :
           fLog[j].op = "report" /\ fLog[j].profile = fProfiles[k]

\* The records of a registry list that carry the package identifier.
RecordsOf(list) ==
  LET Ours(ext) == ext.id = ExtensionId IN SelectSeq(list, Ours)

\* The copy and the registry write of profile p both succeeded.
FannedOut(p) ==
  /\ \E j \in 1..Len(fLog) :
       fLog[j].op = "copy" /\ fLog[j].profile = p /\ fLog[j].ok
  /\ \E j \in 1..Len(fLog) :
       fLog[j].op = "registry" /\ fLog[j].profile = p /\ fLog[j].ok

\* C22: after an all-profiles install the registry file of every discovered
\* profile holds exactly one record for the package identifier, carrying
\* the newly installed version, whether or not the profile had a record
\* before; stated of the profiles whose copy and registry write succeeded.
C22_OneRecordWithNewVersion ==
  fPc = "done" =>
    \A k \in 1..Len(fProfiles) :
      FannedOut(fProfiles[k]) =>
        LET records == RecordsOf(FileOf(fHost, fProfiles[k]).list) IN
          Len(records) = 1 /\ records[1].version = NewVersion

\* The records of a registry list for other identifiers, in order.
OtherRecords(list) ==
  LET Theirs(ext) == ext.id # ExtensionId IN SelectSeq(list, Theirs)

\* C23: a registry update leaves every record whose identifier differs from
\* the package identifier unchanged and present, in its original order,
\* identifiers that merely contain the package identifier included.
C23_OtherRecordsKept ==
  \A i \in 1..Len(fHost) :
    OtherRecords(fHost[i].file.list) = OtherRecords(fBefore[i].file.list)

\* C34: the folder fanout mirrors into the profiles is the one of the
\* version just installed, also when a folder of an older version whose
\* name sorts later as text is in the default extensions directory.
C34_FanoutMirrorsInstalledVersion ==
  fDirName # Null => fDirName = FolderPrefix(ExtensionId) \o NewVersion

\* The folders of a listing that belong to the extension.
OwnFolders(dirs) == {d \in dirs : StartsWith(d, FolderPrefix(ExtensionId))}

\* C35: right after a successful fanout into a profile, the profile's
\* extensions directory holds exactly one folder of the extension, the one
\* just copied, and the folders of other extensions are unchanged.
C35_OneFolderPerProfileStore ==
  (Len(fLog) > 0 /\ fLog[Len(fLog)].op = "report" /\ fLog[Len(fLog)].ok) =>
    /\ OwnFolders(fStore.dirs) = {fDirName}
    /\ fStore.dirs \ OwnFolders(fStore.dirs)
         = fStoreBefore.dirs \ OwnFolders(fStoreBefore.dirs)

\* The directories under profiles/ that are profiles: they hold a registry
\* file.
ExistingProfiles(host) ==
  {host[i].name : i \in {j \in 1..Len(host) : host[j].file.state # "missing"}}

\* C24: fanout is performed only for Cursor, the profile-aware target, and
\* only into profiles that existed when the run began; the run creates no
\* profile and removes none.
C24_FanoutOnlyIntoExistingProfiles ==
  /\ \A j \in 1..Len(fLog) :
       fLog[j].op # "install" =>
         /\ fLog[j].target = "cursor"
         /\ fLog[j].profile \in ExistingProfiles(fBefore)
  /\ ExistingProfiles(fHost) = ExistingProfiles(fBefore)

\* A run over Cursor and VS Code on a host with a directory that is no
\* profile, in which a profile's registry was rewritten and VS Code was
\* installed.
C24_Witness ==
  /\ fPc = "done"
  /\ fTargets = <<"cursor", "vscode">>
  /\ \E i \in 1..Len(fHost) : fHost[i].name = BareProfile
  /\ \E j \in 1..Len(fLog) : fLog[j].op = "registry" /\ fLog[j].result = "updated"
  /\ \E j \in 1..Len(fLog) : fLog[j].op = "install" /\ fLog[j].target = "vscode"

(***************************************************************************)
(* Spec: one run of AugmentMonitor.run()                                   *)
(***************************************************************************)

NoError == "none"

RunIdle ==
  /\ downloadLog = <<>> /\ lastOutcome = "none" /\ delayTotal = 0
  /\ installLog = <<>>
  /\ tempDirMade = FALSE /\ lastSeen = NotSeen /\ verifiedTargets = <<>>
  /\ pc = "idle"
  /\ isDryRun = FALSE /\ isCronMode = FALSE /\ force = FALSE
  /\ detectedIDEs = <<>> /\ ideStatus = <<>> /\ latestVersion = Null
  /\ outdated = <<>> /\ targets = <<>> /\ attempt = 0
  /\ vsixPath = Null /\ tempFiles = {} /\ installResults = <<>>
  /\ verifyIdx = 0 /\ verifyAttempt = 0 /\ failed = <<>> /\ summary = <<>>
  /\ cleanupWarning = FALSE /\ fatal = NoError /\ exitCode = -1

\* The process starts: the flags are on the command line, nothing of the
\* run has happened.
RunInit ==
  /\ downloadLog = <<>> /\ lastOutcome = "none" /\ delayTotal = 0
  /\ installLog = <<>>
  /\ tempDirMade = FALSE /\ lastSeen = NotSeen /\ verifiedTargets = <<>>
  /\ pc = "new"
  /\ isDryRun \in BOOLEAN /\ isCronMode \in BOOLEAN /\ force \in BOOLEAN
  /\ detectedIDEs = <<>> /\ ideStatus = <<>> /\ latestVersion = Null
  /\ outdated = <<>> /\ targets = <<>> /\ attempt = 0
  /\ vsixPath = Null /\ tempFiles = {} /\ installResults = <<>>
  /\ verifyIdx = 0 /\ verifyAttempt = 0 /\ failed = <<>> /\ summary = <<>>
  /\ cleanupWarning = FALSE /\ fatal = NoError /\ exitCode = -1

\* new AugmentMonitor(): the flags are read and the temp directory is
\* created when it is not there, dry run or not.
RunConstruct ==
  /\ pc = "new"
  /\ \E exists \in BOOLEAN : tempDirMade' = ~exists
  /\ pc' = "detect"
  /\ UNCHANGED <<isDryRun, isCronMode, force, detectedIDEs, ideStatus,
                 latestVersion, outdated, targets, attempt, vsixPath,
                 tempFiles, installResults, verifyIdx, verifyAttempt, failed,
                 summary, cleanupWarning, fatal, exitCode>>
  /\ UNCHANGED <<downloadLog, lastOutcome, delayTotal, installLog>>
  /\ UNCHANGED <<lastSeen, verifiedTargets>>
  /\ UNCHANGED notR

\* await this.ideManager.detectAvailableIDEs(): its throw reaches the
\* outer catch of run(), which exits with code 1.
RunDetect ==
  /\ pc = "detect"
  /\ \E home \in BOOLEAN, envs \in [IDEs -> DetectEnvs] :
       LET r == detectAvailableIDEs(envs, home) IN
         IF r.threw
           THEN /\ fatal' = "No supported IDE found"
                /\ exitCode' = 1
                /\ pc' = "exit"
                /\ UNCHANGED detectedIDEs
           ELSE /\ detectedIDEs' = IdeOf(r.available)
                /\ pc' = "scan"
                /\ UNCHANGED <<fatal, exitCode>>
  /\ UNCHANGED <<isDryRun, isCronMode, force, ideStatus, latestVersion,
                 outdated, targets, attempt, vsixPath, tempFiles,
                 installResults, verifyIdx, verifyAttempt, failed, summary,
                 cleanupWarning>>
  /\ UNCHANGED <<downloadLog, lastOutcome, delayTotal, installLog>>
  /\ UNCHANGED <<tempDirMade, lastSeen, verifiedTargets>>
  /\ UNCHANGED notR

\* scanIDEs: one turn of its loop over the detected IDEs.
RunScan ==
  /\ pc = "scan"
  /\ Len(ideStatus) < Len(detectedIDEs)
  /\ LET ide == detectedIDEs[Len(ideStatus) + 1] IN
       \E version \in ScanVersions[ide] :
         ideStatus' = Append(ideStatus, [ide |-> ide, version |-> version])
  /\ pc' = IF Len(ideStatus') = Len(detectedIDEs) THEN "latest" ELSE "scan"
  /\ UNCHANGED <<isDryRun, isCronMode, force, detectedIDEs, latestVersion,
                 outdated, targets, attempt, vsixPath, tempFiles,
                 installResults, verifyIdx, verifyAttempt, failed, summary,
                 cleanupWarning, fatal, exitCode>>
  /\ UNCHANGED <<downloadLog, lastOutcome, delayTotal, installLog>>
  /\ UNCHANGED <<tempDirMade, lastSeen, verifiedTargets>>
  /\ UNCHANGED notR

\* const latestVersion = await this.getLatestVersion()
RunLatest ==
  /\ pc = "latest"
  /\ \E primary \in RunPrimaryResponses, fallback \in RunFallbackResponses :
       LET r == getLatestVersion(primary, fallback) IN
         IF r.threw
           THEN /\ fatal' = "Could not find version in marketplace page"
                /\ exitCode' = 1
                /\ pc' = "exit"
                /\ UNCHANGED latestVersion
           ELSE /\ latestVersion' = r.version
                /\ pc' = "decide"
                /\ UNCHANGED <<fatal, exitCode>>
  /\ UNCHANGED <<isDryRun, isCronMode, force, detectedIDEs, ideStatus,
                 outdated, targets, attempt, vsixPath, tempFiles,
                 installResults, verifyIdx, verifyAttempt, failed, summary,
                 cleanupWarning>>
  /\ UNCHANGED <<downloadLog, lastOutcome, delayTotal, installLog>>
  /\ UNCHANGED <<tempDirMade, lastSeen, verifiedTargets>>
  /\ UNCHANGED notR

\* The statuses before the first one whose comparison throws.
DecidedPrefix(status, latest) ==
  LET Throwing == {i \in 1..Len(status) : isOutdatedThrows(status[i].version, latest)}
      n == IF Throwing = {} THEN Len(status)
           ELSE (CHOOSE i \in Throwing : \A j \in Throwing : i <= j) - 1
  IN [i \in 1..n |-> isOutdated(status[i].version, latest)]

\* The status table of run(): isOutdated per status, updateAvailable, and
\* the early return of a cron run with nothing to update.
RunDecide ==
  /\ pc = "decide"
  /\ outdated' = DecidedPrefix(ideStatus, latestVersion)
  /\ IF Len(outdated') < Len(ideStatus)
       THEN /\ fatal' = "Invalid Version"
            /\ exitCode' = 1
            /\ pc' = "exit"
       ELSE LET updateAvailable == \E i \in 1..Len(outdated') : outdated'[i] IN
              IF ~updateAvailable /\ ~force /\ isCronMode
                THEN /\ pc' = "exit"
                     /\ exitCode' = 0
                     /\ UNCHANGED fatal
                ELSE /\ pc' = "prompt"
                     /\ UNCHANGED <<fatal, exitCode>>
  /\ UNCHANGED <<isDryRun, isCronMode, force, detectedIDEs, ideStatus,
                 latestVersion, targets, attempt, vsixPath, tempFiles,
                 installResults, verifyIdx, verifyAttempt, failed, summary,
                 cleanupWarning>>
  /\ UNCHANGED <<downloadLog, lastOutcome, delayTotal, installLog>>
  /\ UNCHANGED <<tempDirMade, lastSeen, verifiedTargets>>
  /\ UNCHANGED notR

\* Answers of the notification dialog: a button, or null when it failed.
Buttons == {"Update All", "Cancel", "null"}

\* const targets = await this.promptSelection(ideStatus, latestVersion),
\* the return on an empty selection, and the entry into downloadVsix.
\* run() reads neither ideStatus nor the isOutdated flags after this call:
\* both are dropped here.
RunPrompt ==
  /\ pc = "prompt"
  /\ IF isCronMode
       THEN \E button \in Buttons :
              targets' = promptSelectionCron(ideStatus, latestVersion, isDryRun, button)
       ELSE \E choice \in -1..Len(ideStatus) :
              targets' = promptSelectionInteractive(ideStatus, choice)
  /\ IF Len(targets') = 0
       THEN /\ pc' = "exit"
            /\ exitCode' = 0
            /\ UNCHANGED attempt
       ELSE /\ pc' = "download"
            /\ attempt' = 1
            /\ UNCHANGED exitCode
  /\ ideStatus' = <<>>
  /\ outdated' = <<>>
  /\ UNCHANGED <<isDryRun, isCronMode, force, detectedIDEs,
                 latestVersion, vsixPath, tempFiles,
                 installResults, verifyIdx, verifyAttempt, failed, summary,
                 cleanupWarning, fatal>>
  /\ UNCHANGED <<downloadLog, lastOutcome, delayTotal, installLog>>
  /\ UNCHANGED <<tempDirMade, lastSeen, verifiedTargets>>
  /\ UNCHANGED notR

\* downloadVsix: one attempt of its loop.  A dry run returns the path and
\* writes nothing.  The throw after the last attempt passes the inner catch
\* and the finally of run() with vsixPath still null.
RunDownload ==
  /\ pc = "download"
  /\ \E outcome \in DownloadOutcomes :
       LET step == downloadStep(attempt, outcome, isDryRun) IN
         /\ downloadLog' = IF isDryRun THEN downloadLog
                           ELSE Append(downloadLog,
                                       IF step.accepted THEN "accepted" ELSE "rejected")
         /\ lastOutcome' = IF isDryRun THEN lastOutcome ELSE outcome
         /\ delayTotal' = delayTotal + step.delay
         /\ tempFiles' = IF step.wrote
                           THEN tempFiles \cup {ArtifactPath(latestVersion)}
                           ELSE tempFiles
         /\ IF step.next = "return"
              THEN /\ vsixPath' = ArtifactPath(latestVersion)
                   /\ pc' = "install"
                   /\ UNCHANGED <<attempt, fatal>>
            ELSE IF step.next = "retry"
              THEN /\ attempt' = attempt + 1
                   /\ UNCHANGED <<vsixPath, pc, fatal>>
            ELSE /\ fatal' = DownloadFailed
                 /\ pc' = "cleanup"
                 /\ UNCHANGED <<attempt, vsixPath>>
  /\ UNCHANGED <<isDryRun, isCronMode, force, detectedIDEs, ideStatus,
                 latestVersion, outdated, targets, installResults, verifyIdx,
                 verifyAttempt, failed, summary, cleanupWarning, exitCode>>
  /\ UNCHANGED installLog
  /\ UNCHANGED <<tempDirMade, lastSeen, verifiedTargets>>
  /\ UNCHANGED notR

\* installExtensions: one turn of its loop; a throw of the install command
\* is caught and recorded.  After the last target verifyInstallations
\* starts on the successful installs (a dry run verifies nothing).
RunInstall ==
  /\ pc = "install"
  /\ Len(installResults) < Len(targets)
  /\ \E ok \in BOOLEAN :
       LET target == targets[Len(installResults) + 1]
           r == installOne(target, isDryRun, ok)
       IN /\ installResults' = Append(installResults,
                                      [ide |-> target, success |-> r.success])
          /\ installLog' = IF r.invoked
                             THEN Append(installLog, [ide |-> target, ok |-> ok])
                             ELSE installLog
  /\ IF Len(installResults') < Len(targets)
       THEN UNCHANGED <<pc, verifyIdx, verifyAttempt>>
       ELSE IF isDryRun \/ Len(SuccessfulInstalls(installResults')) = 0
         THEN pc' = "summary" /\ UNCHANGED <<verifyIdx, verifyAttempt>>
         ELSE pc' = "verify" /\ verifyIdx' = 1 /\ verifyAttempt' = 1
  /\ UNCHANGED <<isDryRun, isCronMode, force, detectedIDEs, ideStatus,
                 latestVersion, outdated, targets, attempt, vsixPath,
                 tempFiles, failed, summary, cleanupWarning, fatal, exitCode>>
  /\ UNCHANGED <<downloadLog, lastOutcome, delayTotal>>
  /\ UNCHANGED <<tempDirMade, lastSeen, verifiedTargets>>
  /\ UNCHANGED notR

\* verifyInstallations: one attempt for the target under verification: the
\* wait, the scan of all detected IDEs, and the comparison of the target's
\* own status with the expected version.
RunVerify ==
  /\ pc = "verify"
  /\ \E allStatus \in ScanResults(detectedIDEs) :
       LET successful == SuccessfulInstalls(installResults)
           target == successful[verifyIdx]
           step == verifyStep(target, allStatus, latestVersion, verifyAttempt)
       IN /\ lastSeen' = [ide |-> target, version |-> step.observed,
                          own |-> allStatus[target],
                          verified |-> step.verified, scans |-> verifyAttempt,
                          waited |-> (IF lastSeen.ide = target
                                        THEN lastSeen.waited ELSE 0) + step.delay]
          /\ failed' = IF step.next = "failed"
                         THEN Append(failed, target) ELSE failed
          /\ verifiedTargets' = IF step.next = "verified"
                                  THEN Append(verifiedTargets, target)
                                  ELSE verifiedTargets
          /\ IF step.next = "retry"
               THEN /\ verifyAttempt' = verifyAttempt + 1
                    /\ UNCHANGED <<verifyIdx, pc>>
               ELSE IF verifyIdx < Len(successful)
                 THEN /\ verifyIdx' = verifyIdx + 1
                      /\ verifyAttempt' = 1
                      /\ UNCHANGED pc
                 ELSE /\ pc' = "summary"
                      /\ UNCHANGED <<verifyIdx, verifyAttempt>>
  /\ UNCHANGED <<isDryRun, isCronMode, force, detectedIDEs, ideStatus,
                 latestVersion, outdated, targets, attempt, vsixPath,
                 tempFiles, installResults, summary, cleanupWarning, fatal,
                 exitCode>>
  /\ UNCHANGED <<downloadLog, lastOutcome, delayTotal, installLog>>
  /\ UNCHANGED tempDirMade
  /\ UNCHANGED notR

\* The Update Summary and the notification of a cron run.
RunSummary ==
  /\ pc = "summary"
  /\ summary' = [i \in 1..Len(targets) |->
                   SummaryRow(targets[i], installResults, Len(failed) = 0, failed)]
  /\ pc' = "cleanup"
  /\ UNCHANGED <<isDryRun, isCronMode, force, detectedIDEs, ideStatus,
                 latestVersion, outdated, targets, attempt, vsixPath,
                 tempFiles, installResults, verifyIdx, verifyAttempt, failed,
                 cleanupWarning, fatal, exitCode>>
  /\ UNCHANGED <<downloadLog, lastOutcome, delayTotal, installLog>>
  /\ UNCHANGED <<tempDirMade, lastSeen, verifiedTargets>>
  /\ UNCHANGED notR

\* finally { if (vsixPath) this.cleanupFile(vsixPath) }, then the return of
\* run() or, after a throw, the outer catch and process.exit(1).
RunCleanup ==
  /\ pc = "cleanup"
  /\ \E unlinkOk \in BOOLEAN :
       /\ tempFiles' = cleanupAfterRun(vsixPath, tempFiles, isDryRun, unlinkOk)
       /\ cleanupWarning' = cleanupAfterRunWarns(vsixPath, tempFiles, isDryRun, unlinkOk)
  /\ pc' = "exit"
  /\ exitCode' = IF fatal = NoError THEN 0 ELSE 1
  /\ UNCHANGED <<isDryRun, isCronMode, force, detectedIDEs, ideStatus,
                 latestVersion, outdated, targets, attempt, vsixPath,
                 installResults, verifyIdx, verifyAttempt, failed, summary,
                 fatal>>
  /\ UNCHANGED <<downloadLog, lastOutcome, delayTotal, installLog>>
  /\ UNCHANGED <<tempDirMade, lastSeen, verifiedTargets>>
  /\ UNCHANGED notR

Next ==
  \/ RunConstruct
  \/ RunDetect
  \/ RunScan
  \/ RunLatest
  \/ RunDecide
  \/ RunPrompt
  \/ RunDownload
  \/ RunInstall
  \/ RunVerify
  \/ RunSummary
  \/ RunCleanup

(***************************************************************************)
(* Properties of the run                                                   *)
(***************************************************************************)

\* The artifact was written to the temp directory in this run.
Downloaded == vsixPath # Null /\ ~isDryRun

\* C1: when the verification of an installed target used up its attempts
\* without seeing the expected version, the artifact is still on disk when
\* the run ends.
C1_ArtifactRetainedOnVerifyFailure ==
  (pc = "exit" /\ Len(failed) > 0) => vsixPath \in tempFiles

C3_EqualNormalizedNotOutdated ==
  \A i \in 1..Len(outdated) :
    LET installed == ideStatus[i].version IN
      (/\ installed # Null
       /\ normalizeVersion(installed) # Null
       /\ normalizeVersion(installed) = normalizeVersion(latestVersion))
      => ~outdated[i]

\* C4: a status is reported as needing an update exactly when nothing is
\* installed or normalize(latest) > normalize(installed).
C4_DecisionIsNormalizedGreater ==
  \A i \in 1..Len(outdated) :
    LET installed == ideStatus[i].version IN
      outdated[i] <=>
        \/ installed = Null
        \/ /\ normalizeVersion(installed) # Null
           /\ normalizeVersion(latestVersion) # Null
           /\ semverGt(normalizeVersion(latestVersion), normalizeVersion(installed))

\* C5: no version comparison throws or ends the run, whatever raw value
\* the scan stored.
C5_ComparisonNeverThrows == fatal # "Invalid Version"

\* C9: detection never ends the run, also when it detects no IDE.
C9_DetectionNeverFatal == fatal # "No supported IDE found"

\* C15: the download makes at most 3 requests and stops at the first
\* accepted one; before attempt k + 1 it waits k times the base delay and
\* after the last failed attempt it waits nothing; two rejections followed
\* by an accepted response make 3 requests and a total delay of the
\* backoffs of attempts 1 and 2.
C15_DownloadBackoff ==
  LET n == Len(downloadLog)
      waits == IF pc = "download" THEN n ELSE IF n = 0 THEN 0 ELSE n - 1
  IN /\ n <= DownloadMaxRetries
     /\ \A i \in 1..(n - 1) : downloadLog[i] = "rejected"
     /\ pc = "download" => \A i \in 1..n : downloadLog[i] = "rejected"
     /\ 2 * delayTotal = RetryDelayMs * waits * (waits + 1)
     /\ downloadLog = <<"rejected", "rejected", "accepted">>
          => delayTotal = RetryDelayMs * 1 + RetryDelayMs * 2

\* Witness of C15: two rejected requests, then an accepted one.
C15_Witness ==
  /\ downloadLog = <<"rejected", "rejected", "accepted">>
  /\ delayTotal = 6000
  /\ pc = "install"

C17_NoInstallAfterDownloadFailure ==
  (/\ Len(downloadLog) = DownloadMaxRetries
   /\ downloadLog[DownloadMaxRetries] = "rejected")
  => /\ installResults = <<>> /\ installLog = <<>>
     /\ verifyIdx = 0 /\ verifyAttempt = 0 /\ failed = <<>>
     /\ pc \in {"cleanup", "exit"}

\* Witness of C17: the run ended with exit code 1 after three rejected
\* requests, with several targets selected.
C17_Witness ==
  /\ pc = "exit" /\ exitCode = 1
  /\ downloadLog = <<"rejected", "rejected", "rejected">>
  /\ Len(targets) > 1 /\ installLog = <<>>

\* The loop of installExtensions is over.
InstallsOver ==
  pc \in {"verify", "summary"} \/ (pc \in {"cleanup", "exit"} /\ vsixPath # Null)

\* C18: a failed install is recorded for its target only: the command is
\* still run for every other selected target, in order, and the results
\* hold one outcome per selected target, success exactly where the command
\* succeeded.
C18_InstallFailureIsolated ==
  InstallsOver =>
    /\ Len(installResults) = Len(targets)
    /\ \A i \in 1..Len(targets) : installResults[i].ide = targets[i]
    /\ ~isDryRun =>
         /\ IdeOf(installLog) = targets
         /\ \A i \in 1..Len(targets) : installResults[i].success = installLog[i].ok

\* Witness of C18: the first target's install failed and the second one's,
\* run after it, succeeded.
C18_Witness ==
  /\ InstallsOver /\ ~isDryRun /\ Len(targets) >= 2
  /\ ~installResults[1].success /\ installResults[2].success
  /\ installLog[2].ok

\* C25: verification marks a target verified when the normalized observed
\* version equals the normalized expected version: an observed
\* 0.576.0-universal is verified against the expected 0.576.0.
C25_VerifiedOnNormalizedEquality ==
  (lastSeen.ide # "none"
     /\ normalizeVersion(lastSeen.version) # Null
     /\ normalizeVersion(lastSeen.version) = normalizeVersion(latestVersion))
    => lastSeen.verified

\* verifyInstallations has returned.
VerifyOver == pc = "summary" /\ ~isDryRun

C29_DryRunMutatesNothing ==
  isDryRun =>
    /\ ~tempDirMade
    /\ tempFiles = {}
    /\ downloadLog = <<>>
    /\ installLog = <<>>

\* Whether the install of target t succeeded in this run.
InstallSucceeded(t) ==
  \E i \in 1..Len(installResults) :
    installResults[i].ide = t /\ installResults[i].success

\* C31: the Update Summary of a run that installed has one row per selected
\* target, and each row reports that target's own outcome: 'Install Failed'
\* exactly when its install failed, 'Success' exactly when its install
\* succeeded and its own verification matched, 'Verify Failed' exactly when
\* its install succeeded and its own verification was exhausted.
C31_SummaryRowPerTargetOwnOutcome ==
  (pc \in {"cleanup", "exit"} /\ ~isDryRun /\ Len(installResults) > 0) =>
    /\ Len(summary) = Len(targets)
    /\ \A i \in 1..Len(summary) :
         LET t == targets[i] IN
           /\ summary[i].ide = t
           /\ summary[i].status = "Install Failed" <=> ~InstallSucceeded(t)
           /\ summary[i].status = "Success"
                <=> (InstallSucceeded(t) /\ InSeq(t, verifiedTargets))
           /\ summary[i].status = "Verify Failed"
                <=> (InstallSucceeded(t) /\ InSeq(t, failed))


(***************************************************************************)
(* SpecSingle: the single-target AugmentMonitor.run() with                 *)
(* verifyInstallation                                                      *)
(***************************************************************************)

\* What getCurrentVersion() can give a verification attempt: a version, null,
\* or a throw of the detection.
CurrentVersions ==
  {[threw |-> FALSE, version |-> v] : v \in RescanVersions}
    \cup {[threw |-> TRUE, version |-> Null]}

\* One turn of the loop of verifyInstallation, attempt n: a match by ===
\* returns true; a mismatch on the last attempt throws 'Version mismatch',
\* and a throw of getCurrentVersion leaves the method at once.
verifyInstallation(current, expected, n) ==
  IF current.threw THEN "throw"
  ELSE IF current.version = expected THEN "verified"
  ELSE IF n = VerifyMaxRetries THEN "throw"
  ELSE "retry"

SingleIdle ==
  /\ oPc = "idle" /\ oDryRun = FALSE /\ oCron = FALSE /\ oAttempt = 0
  /\ oSeen = Null /\ oError = NoError /\ oReported = FALSE /\ oExit = -1
  /\ oArtifact = "none"

\* run() after the user approved the update.
SingleInit ==
  /\ oPc = "download" /\ oDryRun \in BOOLEAN /\ oCron \in BOOLEAN
  /\ oAttempt = 0 /\ oSeen = Null /\ oError = NoError /\ oReported = FALSE
  /\ oExit = -1 /\ oArtifact = "none"

\* vsixPath = await this.downloadVsix(latestVersion): a dry run returns the
\* path without a file; a throw leaves the try block with vsixPath null.
SingleDownload ==
  /\ oPc = "download"
  /\ \E ok \in BOOLEAN :
       IF oDryRun
         THEN oArtifact' = "path" /\ oPc' = "install" /\ UNCHANGED oError
       ELSE IF ok
         THEN oArtifact' = "file" /\ oPc' = "install" /\ UNCHANGED oError
       ELSE oError' = "download" /\ oPc' = "cleanup" /\ UNCHANGED oArtifact
  /\ UNCHANGED <<oDryRun, oCron, oAttempt, oSeen, oReported, oExit, notO>>

\* await this.installExtension(vsixPath): its throw is logged and thrown
\* again.
SingleInstall ==
  /\ oPc = "install"
  /\ \E ok \in BOOLEAN :
       IF oDryRun \/ ok
         THEN oPc' = "verify" /\ oAttempt' = 1 /\ UNCHANGED oError
         ELSE oError' = "install" /\ oPc' = "cleanup" /\ UNCHANGED oAttempt
  /\ UNCHANGED <<oDryRun, oCron, oSeen, oReported, oExit, oArtifact, notO>>

\* await this.verifyInstallation(latestVersion): one attempt; a dry run
\* returns true at once.
SingleVerify ==
  /\ oPc = "verify"
  /\ IF oDryRun
       THEN oPc' = "report" /\ UNCHANGED <<oAttempt, oSeen, oError>>
       ELSE \E current \in CurrentVersions :
              LET next == verifyInstallation(current, NewVersion, oAttempt) IN
                /\ oSeen' = current.version
                /\ IF next = "verified"
                     THEN oPc' = "report" /\ UNCHANGED <<oAttempt, oError>>
                   ELSE IF next = "retry"
                     THEN oAttempt' = oAttempt + 1 /\ UNCHANGED <<oPc, oError>>
                   ELSE oError' = "verify" /\ oPc' = "cleanup"
                        /\ UNCHANGED oAttempt
  /\ UNCHANGED <<oDryRun, oCron, oReported, oExit, oArtifact, notO>>

\* 'Update completed successfully!' and the notification of a cron run.
SingleReport ==
  /\ oPc = "report"
  /\ oReported' = TRUE
  /\ oPc' = "cleanup"
  /\ UNCHANGED <<oDryRun, oCron, oAttempt, oSeen, oError, oExit, oArtifact,
                 notO>>

\* finally { if (vsixPath) this.cleanupFile(vsixPath) }, then the return of
\* run() or, after a throw, its catch block and process.exit(1).
SingleCleanup ==
  /\ oPc = "cleanup"
  /\ \E unlinkOk \in BOOLEAN :
       oArtifact' = IF oArtifact = "file" /\ unlinkOk THEN "path" ELSE oArtifact
  /\ oExit' = IF oError = NoError THEN 0 ELSE 1
  /\ oPc' = "exit"
  /\ UNCHANGED <<oDryRun, oCron, oAttempt, oSeen, oError, oReported, notO>>

SingleNext ==
  \/ SingleDownload
  \/ SingleInstall
  \/ SingleVerify
  \/ SingleReport
  \/ SingleCleanup

\* C27: a verification failure does not make the run fatal: the run still
\* reaches its final report and the process does not exit with an error
\* code because of the verification failure alone.
C27_VerifyFailureNotFatal ==
  (oPc = "exit" /\ oError = "verify") => (oExit = 0 /\ oReported)

(***************************************************************************)
(* AICodeUpdater: updateAugment and runCronMode under run()                *)
(***************************************************************************)

\* What scanForExtension can report for each detected IDE.
UpdaterVersions == {Null, V0560, V0576}

UpdaterStatusPool ==
  {<<>>}
    \cup {<<[ide |-> i, version |-> v]>> : i \in {"cursor", "vscode"},
                                          v \in UpdaterVersions}
    \cup {<<[ide |-> "cursor", version |-> v], [ide |-> "vscode", version |-> w]>> :
            v \in UpdaterVersions, w \in UpdaterVersions}

\* ideStatus.some(s => !s.version || semver.gt(latest, s.version)).
anyNeedsUpdate(status, latest) ==
  \E i \in 1..Len(status) : isOutdated(status[i].version, latest)

\* The targets of runCronMode: ideStatus.filter(...) once the notification
\* returned 'Update Now'.
cronTargets(status, latest, button) ==
  LET Needs(st) == isOutdated(st.version, latest)
  IN IF button = "Update Now" THEN IdeOf(SelectSeq(status, Needs)) ELSE <<>>

\* NotificationManager.sendNative: 'OK' in a dry run, else the button the
\* dialog returned (the first button where there is no dialog), null when
\* the dialog failed.
sendNative(dryRun, outcome) ==
  IF dryRun THEN "OK"
  ELSE IF outcome = "failed" THEN "null"
  ELSE outcome

\* What the dialog of runCronMode can end with.
DialogOutcomes == {"Later", "Update Now", "failed"}

\* The answers typed at the prompt, after toLowerCase() and trim().
Answers ==
  {<<"a">>, <<"q">>, <<"1">>, <<"2">>, <<"3">>, <<"0">>, <<"x">>, <<>>,
   <<"1", "x">>}

\* parseInt(choice): the number written by the leading digits, NaN when
\* the text does not start with a digit.
parseInt(text) ==
  LET run == DigitRun(text, 1) IN
    IF run = 0 THEN [nan |-> TRUE, value |-> 0]
    ELSE [nan |-> FALSE, value |-> SeqToNat(SubSeq(text, 1, run))]

\* promptIDESelection: 'q', 'a', or parseInt(choice) - 1 as an index of
\* ideStatus; anything else resolves to no target.
promptIDESelection(status, answer) ==
  IF answer = <<"q">> THEN <<>>
  ELSE IF answer = <<"a">> THEN IdeOf(status)
  ELSE
    LET parsed == parseInt(answer)
        idx == parsed.value - 1
    IN IF ~parsed.nan /\ idx >= 0 /\ idx < Len(status)
         THEN <<status[idx + 1].ide>>
         ELSE <<>>

\* The keys of the menu entries, in order.
SupportedKeys == <<"1", "2", "3">>

\* Nothing was asked yet.
NoAnswer == [button |-> "none", text |-> <<>>]

\* Where an error thrown inside the Augment part ends: runCronMode catches
\* and logs it and run() returns; in interactive mode it reaches run()'s
\* catch, which calls process.exit(1).
updaterExitOnError(cron) == IF cron THEN 0 ELSE 1

UpdaterIdle ==
  /\ uPc = "idle" /\ uDryRun = FALSE /\ uCron = FALSE /\ uStatus = <<>>
  /\ uTargets = <<>> /\ uTi = 0 /\ uLog = <<>> /\ uError = NoError
  /\ uReported = FALSE /\ uExit = -1 /\ uArtifact = "none"
  /\ uAnswer = NoAnswer

\* run() on entering updateAugment (menu action 'augment') or runCronMode.
UpdaterInit ==
  /\ uPc = "check" /\ uDryRun \in BOOLEAN /\ uCron \in BOOLEAN
  /\ uStatus \in UpdaterStatusPool
  /\ uTargets = <<>> /\ uTi = 0 /\ uLog = <<>> /\ uError = NoError
  /\ uReported = FALSE /\ uExit = -1 /\ uArtifact = "none"
  /\ uAnswer = NoAnswer

\* Detection, scan, getLatestMarketplaceVersion and the selection of the
\* targets.  updateAugment returns before resolving when no IDE is detected;
\* the menu then takes 'quit'.
UpdaterCheck ==
  /\ uPc = "check"
  /\ \E resolved \in BOOLEAN, answer \in Answers, outcome \in DialogOutcomes :
       IF ~uCron /\ Len(uStatus) = 0
         THEN /\ uPc' = "exit" /\ uExit' = 0
              /\ UNCHANGED <<uError, uTargets, uAnswer>>
       ELSE IF ~resolved
         THEN /\ uError' = "resolution"
              /\ uPc' = "exit" /\ uExit' = updaterExitOnError(uCron)
              /\ UNCHANGED <<uTargets, uAnswer>>
       ELSE
         LET asked == anyNeedsUpdate(uStatus, NewVersion)
             button == sendNative(uDryRun, outcome)
             sel == IF ~asked THEN <<>>
                    ELSE IF uCron THEN cronTargets(uStatus, NewVersion, button)
                    ELSE promptIDESelection(uStatus, answer)
         IN /\ uTargets' = sel
            /\ uAnswer' = IF ~asked THEN NoAnswer
                          ELSE IF uCron THEN [button |-> button, text |-> <<>>]
                          ELSE [button |-> "none", text |-> answer]
            /\ UNCHANGED uError
            /\ IF Len(sel) = 0
                 THEN uPc' = "exit" /\ uExit' = 0
                 ELSE uPc' = "download" /\ UNCHANGED uExit
  /\ UNCHANGED <<uDryRun, uCron, uStatus, uTi, uLog, uReported, uArtifact>>
  /\ UNCHANGED notU

\* vsixPath = await this.downloadVsix(latest): a dry run returns the path
\* without a file; a throw leaves with vsixPath null, so nothing is cleaned.
UpdaterDownload ==
  /\ uPc = "download"
  /\ \E ok \in BOOLEAN :
       IF uDryRun \/ ok
         THEN /\ uArtifact' = IF uDryRun THEN "none" ELSE "file"
              /\ uPc' = "install" /\ uTi' = 1
              /\ UNCHANGED <<uError, uExit>>
         ELSE /\ uError' = "download"
              /\ uPc' = "exit" /\ uExit' = updaterExitOnError(uCron)
              /\ UNCHANGED <<uArtifact, uTi>>
  /\ UNCHANGED <<uDryRun, uCron, uStatus, uTargets, uLog, uReported>>
  /\ UNCHANGED <<uAnswer, notU>>

\* await this.ideManager.installExtension(target, vsixPath, this.isDryRun):
\* the boolean it returns is dropped.
UpdaterInstall ==
  /\ uPc = "install" /\ uTi <= Len(uTargets)
  /\ \E ok \in BOOLEAN :
       uLog' = Append(uLog, [op |-> "install", ide |-> uTargets[uTi],
                             ok |-> (uDryRun \/ ok)])
  /\ uTi' = uTi + 1
  /\ UNCHANGED <<uPc, uDryRun, uCron, uStatus, uTargets, uError, uReported,
                 uExit, uArtifact>>
  /\ UNCHANGED <<uAnswer, notU>>

\* After the loop: 'Update complete!' (the 'Update Complete' notification in
\* cron mode), the artifact removed, and run() returns normally.
UpdaterFinish ==
  /\ uPc = "install" /\ uTi > Len(uTargets)
  /\ uReported' = TRUE
  /\ \E removed \in BOOLEAN :
       uArtifact' = IF uArtifact = "file" /\ removed THEN "removed" ELSE uArtifact
  /\ uPc' = "exit" /\ uExit' = 0
  /\ UNCHANGED <<uDryRun, uCron, uStatus, uTargets, uTi, uLog, uError>>
  /\ UNCHANGED <<uAnswer, notU>>

UpdaterNext ==
  \/ UpdaterCheck
  \/ UpdaterDownload
  \/ UpdaterInstall
  \/ UpdaterFinish

\* C28: the update is reported as done only when every target whose install
\* command succeeded has then been verified by re-detecting its version, and
\* verification is never attempted for a target whose install failed.
C28_VerifiedBeforeReported ==
  /\ uReported =>
       \A i \in 1..Len(uLog) :
         (uLog[i].op = "install" /\ uLog[i].ok) =>
           \E j \in (i + 1)..Len(uLog) :
             uLog[j].op = "verify" /\ uLog[j].ide = uLog[i].ide
  /\ \A j \in 1..Len(uLog) :
       uLog[j].op = "verify" =>
         \E i \in 1..(j - 1) :
           uLog[i].op = "install" /\ uLog[i].ok /\ uLog[i].ide = uLog[j].ide

\* The keys the prompt lists for the scanned IDEs: '1', '2', ...
ListedKeys(status) == {<<SupportedKeys[i]>> : i \in 1..Len(status)}

\* The operator approved: 'Update Now' in cron mode, 'a' or a listed key at
\* the prompt.
Approved ==
  IF uCron THEN uAnswer.button = "Update Now"
  ELSE uAnswer.text = <<"a">> \/ uAnswer.text \in ListedKeys(uStatus)

\* C37: nothing is downloaded, installed or deleted unless the selection is
\* non-empty, and the selection is non-empty only after the operator
\* approved: 'a' or a listed index at the prompt, the approve button of the
\* notification in cron mode.
C37_NoActionWithoutApproval ==
  (uPc \in {"download", "install"} \/ Len(uLog) > 0 \/ uArtifact # "none"
     \/ Len(uTargets) > 0) =>
    (Len(uTargets) > 0 /\ Approved)

\* C30: a run that ended on a fatal error (the version could not be
\* resolved, the download failed) exits with a non-zero code, and a run
\* without one exits with 0.
C30_FatalErrorExitsNonZero ==
  uPc = "exit" => (uError # NoError <=> uExit # 0)

(***************************************************************************)
(* SpecRetry: ErrorHandler.withRetry                                       *)
(***************************************************************************)

\* Most attempts a generated call asks for.
MaxAttempts == 4

\* retryDefaults.
DefaultMaxAttempts == 3
DefaultDelayMs == 1000
DefaultBackoffMultiplier == 2

\* delayMs of safeReadFile and safeWriteFile.
SafeFileDelayMs == 500

RECURSIVE Pow(_, _)
\* Math.pow on natural numbers.
Pow(b, n) == IF n = 0 THEN 1 ELSE b * Pow(b, n - 1)

\* Nothing returned or thrown yet; 0 is no attempt number.
NoResult == [kind |-> "none", of |-> 0]

backoffDelayFromAttempt(delayMs, backoffMultiplier, attemptNo) ==
  delayMs * Pow(backoffMultiplier, attemptNo)

\* const delay = delayMs * Math.pow(backoffMultiplier, attempt - 1).
backoffDelay(delayMs, backoffMultiplier, attemptNo) ==
  delayMs * Pow(backoffMultiplier, attemptNo - 1)

retryStepOneMore(attemptNo, maxAttempts, ok) ==
  IF ok THEN "return"
  ELSE IF attemptNo <= maxAttempts THEN "retry"
  ELSE "throw"

\* What follows the invocation number attemptNo: the value is returned, the
\* loop goes on after onRetry and the sleep, or the loop ends and lastError
\* is thrown.
retryStep(attemptNo, maxAttempts, ok) ==
  IF ok THEN "return"
  ELSE IF attemptNo < maxAttempts THEN "retry"
  ELSE "throw"

RetryIdle ==
  /\ wPc = "idle" /\ wMax = 0 /\ wDelayMs = 0 /\ wMult = 0 /\ wOnRetry = FALSE
  /\ wAttempt = 0 /\ wLastOk = FALSE /\ wLastError = 0 /\ wLog = <<>>
  /\ wResult = NoResult

\* withRetry(fn, options) with the options merged over retryDefaults.
RetryInit ==
  /\ wPc = "invoke"
  /\ wMax \in 1..MaxAttempts
  /\ wDelayMs \in {SafeFileDelayMs, DefaultDelayMs}
  /\ wMult \in {1, DefaultBackoffMultiplier, 3}
  /\ wOnRetry \in BOOLEAN
  /\ wAttempt = 1 /\ wLastOk = FALSE /\ wLastError = 0 /\ wLog = <<>>
  /\ wResult = NoResult

\* return await fn(attempt): the value of invocation n and the error of
\* invocation n are both named by n.
RetryInvoke ==
  /\ wPc = "invoke"
  /\ \E ok \in BOOLEAN :
       /\ wLog' = Append(wLog, [op |-> "call", attempt |-> wAttempt,
                                ok |-> ok, delay |-> 0])
       /\ wLastOk' = ok
       /\ IF retryStep(wAttempt, wMax, ok) = "return"
            THEN /\ wResult' = [kind |-> "return", of |-> wAttempt]
                 /\ wPc' = "done"
                 /\ UNCHANGED wLastError
            ELSE /\ wLastError' = wAttempt
                 /\ wPc' = "caught"
                 /\ UNCHANGED wResult
  /\ UNCHANGED <<wMax, wDelayMs, wMult, wOnRetry, wAttempt>>
  /\ UNCHANGED notW

\* The catch block and the end of the loop: onRetry and the sleep before
\* another attempt, or throw lastError.
RetryCatch ==
  /\ wPc = "caught"
  /\ LET delay == backoffDelay(wDelayMs, wMult, wAttempt)
         called == IF wOnRetry
                     THEN <<[op |-> "onRetry", attempt |-> wAttempt,
                             ok |-> FALSE, delay |-> delay]>>
                     ELSE <<>>
         slept == <<[op |-> "sleep", attempt |-> wAttempt, ok |-> FALSE,
                     delay |-> delay]>>
     IN IF retryStep(wAttempt, wMax, wLastOk) = "retry"
          THEN /\ wLog' = wLog \o called \o slept
               /\ wAttempt' = wAttempt + 1
               /\ wPc' = "invoke"
               /\ UNCHANGED wResult
          ELSE /\ wResult' = [kind |-> "throw", of |-> wLastError]
               /\ wPc' = "done"
               /\ UNCHANGED <<wLog, wAttempt>>
  /\ UNCHANGED <<wMax, wDelayMs, wMult, wOnRetry, wLastOk, wLastError>>
  /\ UNCHANGED notW

RetryNext ==
  \/ RetryInvoke
  \/ RetryCatch

IsCall(ev) == ev.op = "call"
IsSleep(ev) == ev.op = "sleep"
IsOnRetry(ev) == ev.op = "onRetry"

Calls == SelectSeq(wLog, IsCall)

\* C32: withRetry invokes the function at most maxAttempts times with the
\* attempt numbers 1, 2, ..., returns the value of the first invocation
\* that succeeds without invoking it again, and after maxAttempts failures
\* throws the error of the last invocation.
C32_WithRetryBounded ==
  /\ Len(Calls) <= wMax
  /\ \A i \in 1..Len(Calls) :
       /\ Calls[i].attempt = i
       /\ i < Len(Calls) => ~Calls[i].ok
  /\ wPc = "done" => wResult.kind \in {"return", "throw"}
  /\ wResult.kind = "return" =>
       /\ Calls[Len(Calls)].ok
       /\ wResult.of = Len(Calls)
  /\ wResult.kind = "throw" =>
       /\ Len(Calls) = wMax
       /\ \A i \in 1..Len(Calls) : ~Calls[i].ok
       /\ wResult.of = wMax

\* Every attempt of a call with room for three failed and its last error was
\* thrown.
C32_Witness ==
  /\ wPc = "done" /\ wMax = DefaultMaxAttempts
  /\ wResult = [kind |-> "throw", of |-> DefaultMaxAttempts]

\* The failed invocations that are not the last one allowed.
FailedBeforeLast ==
  LET Retried(ev) == IsCall(ev) /\ ~ev.ok /\ ev.attempt < wMax
  IN SelectSeq(wLog, Retried)

Sleeps == SelectSeq(wLog, IsSleep)
OnRetries == SelectSeq(wLog, IsOnRetry)

\* C36: withRetry sleeps exactly once after each failed attempt except the
\* last, for delayMs * backoffMultiplier^(attempt-1), and calls onRetry (when
\* one was passed) exactly once before each such sleep with that attempt
\* and delay; nothing follows a success or the final failure.
C36_BackoffAfterEachFailure ==
  /\ wPc # "caught" =>
       /\ Len(Sleeps) = Len(FailedBeforeLast)
       /\ Len(OnRetries) = IF wOnRetry THEN Len(Sleeps) ELSE 0
  /\ \A k \in 1..Len(Sleeps) :
       /\ Sleeps[k].attempt = k
       /\ Sleeps[k].delay = wDelayMs * Pow(wMult, k - 1)
  /\ \A i \in 1..Len(wLog) :
       /\ IsSleep(wLog[i]) =>
            /\ i > 1
            /\ IF wOnRetry
                 THEN /\ IsOnRetry(wLog[i - 1])
                      /\ wLog[i - 1].attempt = wLog[i].attempt
                      /\ wLog[i - 1].delay = wLog[i].delay
                 ELSE /\ IsCall(wLog[i - 1]) /\ ~wLog[i - 1].ok
                      /\ wLog[i - 1].attempt = wLog[i].attempt
       /\ IsOnRetry(wLog[i]) =>
            /\ i > 1
            /\ IsCall(wLog[i - 1]) /\ ~wLog[i - 1].ok
            /\ wLog[i - 1].attempt = wLog[i].attempt
  /\ wPc = "done" => IsCall(wLog[Len(wLog)])

\* Three failures with onRetry passed: two sleeps, the second one longer.
C36_Witness ==
  /\ wPc = "done" /\ wOnRetry /\ wMult = DefaultBackoffMultiplier
  /\ wResult.kind = "throw" /\ Len(Sleeps) = 2 /\ Len(OnRetries) = 2
  /\ Sleeps[2].delay = 2 * wDelayMs

(***************************************************************************)
(* SpecCli: CLIManager.checkAllForUpdates, updateCLI and installCLI        *)
(***************************************************************************)

\* Object.keys(this.supportedCLIs), in insertion order.
supportedCLIs == <<"claude-code", "gemini-cli">>

RegistryIds == {supportedCLIs[i] : i \in 1..Len(supportedCLIs)}

\* Names every object inherits from Object.prototype: this.supportedCLIs[id]
\* finds them although the registry does not list them.
InheritedNames == {"constructor", "toString"}

\* The ids installCLI is called with.
CliIds == RegistryIds \cup InheritedNames \cup {"unknown-cli"}

\* this.detectedCLIs: the installed CLIs in registry order, each with the
\* version npm lists.
DetectedPool ==
  {<<>>}
    \cup {<<[id |-> i, installedVersion |-> v]>> :
            i \in RegistryIds, v \in {V0560, V0576}}
    \cup {<<[id |-> "claude-code", installedVersion |-> v],
            [id |-> "gemini-cli", installedVersion |-> w]>> :
            v \in {V0560, V0576}, w \in {V0560, V0576}}

\* What getLatestVersion ends with for one package: a version, or Null for
\* the error it rethrows.
LatestOutcomes == {Null, V0560, V0576}

\* One turn of the loop of checkAllForUpdates.
checkOne(cli, latest) ==
  IF latest = Null \/ semverGtThrows(latest, cli.installedVersion)
    THEN [id |-> cli.id, installedVersion |-> cli.installedVersion,
          latestVersion |-> Null, needsUpdate |-> FALSE, error |-> TRUE]
    ELSE [id |-> cli.id, installedVersion |-> cli.installedVersion,
          latestVersion |-> latest,
          needsUpdate |-> semverGt(latest, cli.installedVersion),
          error |-> FALSE]

RECURSIVE checkAllForUpdatesAborting(_, _)
checkAllForUpdatesAborting(detected, latest) ==
  IF Len(detected) = 0 THEN <<>>
  ELSE LET first == checkOne(detected[1], latest[1]) IN
         IF first.error THEN <<first>>
         ELSE <<first>> \o checkAllForUpdatesAborting(Tail(detected), Tail(latest))

RECURSIVE checkAllForUpdates(_, _)
\* for (const cli of this.detectedCLIs) { try { ... } catch { ... } }
checkAllForUpdates(detected, latest) ==
  IF Len(detected) = 0 THEN <<>>
  ELSE <<checkOne(detected[1], latest[1])>>
         \o checkAllForUpdates(Tail(detected), Tail(latest))

\* What a call of updateCLI or installCLI ended with.
CallResult(op, id, dryRun, commandOk, threw, invoked, success) ==
  [op |-> op, id |-> id, dryRun |-> dryRun, commandOk |-> commandOk,
   threw |-> threw, invoked |-> invoked, success |-> success,
   isDryRunResult |-> (dryRun /\ threw = NoError)]

NoCall == CallResult("none", "none", FALSE, FALSE, NoError, FALSE, FALSE)

\* updateCLI(cli, isDryRun): the npm command inside try/catch.
updateCLI(id, dryRun, commandOk) ==
  IF dryRun THEN CallResult("update", id, dryRun, commandOk, NoError, FALSE, TRUE)
  ELSE CallResult("update", id, dryRun, commandOk, NoError, TRUE, commandOk)

\* installCLI(cliId, isDryRun): const config = this.supportedCLIs[cliId]
\* is undefined only for a name that is neither listed nor inherited.
installCLI(id, dryRun, commandOk) ==
  IF id \notin RegistryIds \cup InheritedNames
    THEN CallResult("install", id, dryRun, commandOk, "Unknown CLI", FALSE, FALSE)
  ELSE IF dryRun
    THEN CallResult("install", id, dryRun, commandOk, NoError, FALSE, TRUE)
  ELSE CallResult("install", id, dryRun, commandOk, NoError, TRUE, commandOk)

CliIdle ==
  /\ cPc = "idle" /\ cDetected = <<>> /\ cLatest = <<>> /\ cResults = <<>>
  /\ cCall = NoCall

CliInit ==
  /\ cPc = "check" /\ cDetected \in DetectedPool
  /\ cLatest = <<>> /\ cResults = <<>> /\ cCall = NoCall

\* checkAllForUpdates over the detected CLIs.
CliCheck ==
  /\ cPc = "check"
  /\ \E latest \in [1..Len(cDetected) -> LatestOutcomes] :
       /\ cLatest' = latest
       /\ cResults' = checkAllForUpdates(cDetected, latest)
  /\ cPc' = "act"
  /\ UNCHANGED <<cDetected, cCall>>
  /\ UNCHANGED notC

\* updateCLI for a CLI that needs the update.
CliUpdate ==
  /\ cPc = "act"
  /\ \E i \in 1..Len(cResults), dryRun \in BOOLEAN, commandOk \in BOOLEAN :
       /\ cResults[i].needsUpdate
       /\ cCall' = updateCLI(cResults[i].id, dryRun, commandOk)
  /\ cPc' = "done"
  /\ UNCHANGED <<cDetected, cLatest, cResults>>
  /\ UNCHANGED notC

\* installCLI for an id.
CliInstall ==
  /\ cPc = "act"
  /\ \E id \in CliIds, dryRun \in BOOLEAN, commandOk \in BOOLEAN :
       cCall' = installCLI(id, dryRun, commandOk)
  /\ cPc' = "done"
  /\ UNCHANGED <<cDetected, cLatest, cResults>>
  /\ UNCHANGED notC

CliNext ==
  \/ CliCheck
  \/ CliUpdate
  \/ CliInstall

\* C39: checkAllForUpdates returns one result per detected CLI, in detection
\* order; a CLI whose latest version could not be resolved has latestVersion
\* null, needsUpdate false and an error, and every other CLI has the result
\* its own versions give.
C39_OneResultPerDetectedCli ==
  cPc \in {"act", "done"} =>
    /\ Len(cResults) = Len(cDetected)
    /\ \A i \in 1..Len(cResults) :
         /\ cResults[i].id = cDetected[i].id
         /\ cResults[i].installedVersion = cDetected[i].installedVersion
         /\ cLatest[i] = Null =>
              /\ cResults[i].latestVersion = Null
              /\ ~cResults[i].needsUpdate
              /\ cResults[i].error
         /\ cLatest[i] # Null =>
              /\ cResults[i].latestVersion = cLatest[i]
              /\ cResults[i].needsUpdate
                   <=> semverGt(cLatest[i], cDetected[i].installedVersion)
              /\ ~cResults[i].error

\* The first CLI could not be resolved and the second one needs an update.
C39_Witness ==
  /\ cPc = "act" /\ Len(cDetected) = 2
  /\ cLatest[1] = Null /\ cResults[1].error
  /\ cResults[2].needsUpdate /\ cResults[2].latestVersion = V0576

\* C40: updateCLI and installCLI do not throw when the npm command fails but
\* return success false; a dry run returns success with the dryRun mark
\* and runs no command; installCLI with an id that the registry does not
\* list throws 'Unknown CLI' before any command.
C40_CliCallsNeverThrowOnCommandFailure ==
  cPc = "done" =>
    IF cCall.op = "install" /\ cCall.id \notin RegistryIds
      THEN cCall.threw = "Unknown CLI" /\ ~cCall.invoked
      ELSE /\ cCall.threw = NoError
           /\ cCall.dryRun =>
                (cCall.success /\ cCall.isDryRunResult /\ ~cCall.invoked)
           /\ (~cCall.dryRun /\ ~cCall.commandOk) => ~cCall.success

(***************************************************************************)
(* Specifications                                                          *)
(***************************************************************************)

SpecNormInit ==
  /\ NormInit /\ DetectIdle /\ DirIdle /\ RunIdle /\ ResolveIdle /\ FanoutIdle
  /\ SingleIdle /\ UpdaterIdle /\ RetryIdle /\ CliIdle

SpecNorm == SpecNormInit /\ [][NormNext]_vars

SpecDetectInit ==
  /\ DetectInit /\ NormIdle /\ DirIdle /\ RunIdle /\ ResolveIdle /\ FanoutIdle
  /\ SingleIdle /\ UpdaterIdle /\ RetryIdle /\ CliIdle

SpecDetect == SpecDetectInit /\ [][DetectNext]_vars

SpecDirInit ==
  /\ DirInit /\ NormIdle /\ DetectIdle /\ RunIdle /\ ResolveIdle /\ FanoutIdle
  /\ SingleIdle /\ UpdaterIdle /\ RetryIdle /\ CliIdle

SpecDir == SpecDirInit /\ [][DirNext]_vars

SpecResolveInit ==
  /\ ResolveInit /\ NormIdle /\ DetectIdle /\ DirIdle /\ RunIdle /\ FanoutIdle
  /\ SingleIdle /\ UpdaterIdle /\ RetryIdle /\ CliIdle

SpecResolve == SpecResolveInit /\ [][ResolveNext]_vars

SpecFanoutInit ==
  /\ FanoutInit /\ NormIdle /\ DetectIdle /\ DirIdle /\ RunIdle /\ ResolveIdle
  /\ SingleIdle /\ UpdaterIdle /\ RetryIdle /\ CliIdle

SpecFanout == SpecFanoutInit /\ [][FanoutNext]_vars

SpecSingleInit ==
  /\ SingleInit /\ NormIdle /\ DetectIdle /\ DirIdle /\ RunIdle /\ ResolveIdle
  /\ FanoutIdle /\ UpdaterIdle /\ RetryIdle /\ CliIdle

SpecSingle == SpecSingleInit /\ [][SingleNext]_vars

SpecUpdaterInit ==
  /\ UpdaterInit /\ NormIdle /\ DetectIdle /\ DirIdle /\ RunIdle /\ ResolveIdle
  /\ FanoutIdle /\ SingleIdle /\ RetryIdle /\ CliIdle

SpecUpdater == SpecUpdaterInit /\ [][UpdaterNext]_vars

SpecRetryInit ==
  /\ RetryInit /\ NormIdle /\ DetectIdle /\ DirIdle /\ RunIdle /\ ResolveIdle
  /\ FanoutIdle /\ SingleIdle /\ UpdaterIdle /\ CliIdle

SpecRetry == SpecRetryInit /\ [][RetryNext]_vars

SpecCliInit ==
  /\ CliInit /\ NormIdle /\ DetectIdle /\ DirIdle /\ RunIdle /\ ResolveIdle
  /\ FanoutIdle /\ SingleIdle /\ UpdaterIdle /\ RetryIdle

SpecCli == SpecCliInit /\ [][CliNext]_vars

Init ==
  /\ RunInit /\ NormIdle /\ DetectIdle /\ DirIdle /\ ResolveIdle /\ FanoutIdle
  /\ SingleIdle /\ UpdaterIdle /\ RetryIdle /\ CliIdle
Spec == Init /\ [][Next]_vars

====
